---- MODULE Spec2Model ----
\* A model of hermannm/set: ArraySet, HashSet and DynamicSet, driven in
\* lockstep by the same operations, as testAllSetTypes drives them.
EXTENDS Integers, Sequences, FiniteSets, TLC

\* ------------------------------------------------------------------ bounds
MaxElem == 3
MaxLen == 2
MaxThreshold == 3
MaxMemElem == 2
MaxArrays == 6
MaxMaps == 4
MaxSliceLen == 22
MaxDistinct == 21

Elems == 1..MaxElem
Thresholds == 0..MaxThreshold

\* dynamic_set.go:31
DefaultDynamicSetSizeThreshold == 20

\* ------------------------------------------------------------ Go helpers
\* Slices of length 0..MaxLen over Elems: the arguments of the bulk operations.
Slices == UNION {[1..n -> Elems] : n \in 0..MaxLen}

Range(s) == {s[i] : i \in 1..Len(s)}

NoDuplicates(s) == \A i, j \in 1..Len(s) : i # j => s[i] # s[j]

RECURSIVE MapOrders(_)
\* The orders in which a range loop over a map can visit its keys.
MapOrders(keys) ==
    IF keys = {} THEN {<<>>}
    ELSE UNION {{<<k>> \o p : p \in MapOrders(keys \ {k})} : k \in keys}

\* Go's integer division by two (truncation; thresholds here are >= 0).
Half(n) == n \div 2

\* ------------------------------------------------------------- ArraySet
\* ArraySet[E]{elements []E}: a slice, nil or allocated.
ArraySetZero == [isNil |-> TRUE, elements |-> <<>>]

NewArraySet == [isNil |-> TRUE, elements |-> <<>>]

ArraySetWithCapacity == [isNil |-> FALSE, elements |-> <<>>]

ArraySetContains(set, element) ==
    \E i \in 1..Len(set.elements) : set.elements[i] = element

ArraySetSize(set) == Len(set.elements)

ArraySetIsEmpty(set) == Len(set.elements) = 0

\* ArraySet.Add without the scan for an element already added.
ArraySetAddNoScan(set, element) ==
    [isNil |-> FALSE, elements |-> Append(set.elements, element)]

ArraySetAdd(set, element) ==
    IF \E i \in 1..Len(set.elements) : element = set.elements[i]
    THEN set
    ELSE [isNil |-> FALSE, elements |-> Append(set.elements, element)]

RECURSIVE AddEach(_, _)
\* for _, element := range elements { set.Add(element) }
AddEach(set, elements) ==
    IF elements = <<>> THEN set
    ELSE AddEach(ArraySetAdd(set, Head(elements)), Tail(elements))

ArraySetAddFromSlice(set, elements) ==
    AddEach(IF set.isNil THEN ArraySetWithCapacity ELSE set, elements)

\* order: the order in which otherSet's iteration yields its elements.
ArraySetMergeWith(set, order) ==
    AddEach(IF set.isNil THEN ArraySetWithCapacity ELSE set, order)

RECURSIVE FromSliceLoop(_, _)
FromSliceLoop(set, elements) ==
    IF elements = <<>> THEN set
    ELSE FromSliceLoop(
            IF ArraySetContains(set, Head(elements)) THEN set
            ELSE [set EXCEPT !.elements = Append(@, Head(elements))],
            Tail(elements))

ArraySetFromSlice(elements) == FromSliceLoop(ArraySetWithCapacity, elements)

\* The first index holding element, 0 when there is none.
IndexOf(s, element) ==
    IF \E i \in 1..Len(s) : s[i] = element
    THEN CHOOSE i \in 1..Len(s) :
            s[i] = element /\ \A j \in 1..(i - 1) : s[j] # element
    ELSE 0

\* ArraySet.Remove that fills the gap with the last element.
ArraySetRemoveSwap(set, element) ==
    LET i == IndexOf(set.elements, element) IN
    IF i = 0 THEN set
    ELSE [set EXCEPT !.elements =
            [j \in 1..(Len(@) - 1) |-> IF j = i THEN @[Len(@)] ELSE @[j]]]

\* ArraySet.Remove cutting the slice one position too far.
ArraySetRemoveTwo(set, element) ==
    LET i == IndexOf(set.elements, element) IN
    IF i = 0 THEN set
    ELSE [set EXCEPT !.elements =
            SubSeq(@, 1, i - 1) \o SubSeq(@, i + 2, Len(@))]

ArraySetRemove(set, element) ==
    LET i == IndexOf(set.elements, element) IN
    IF i = 0 THEN set
    ELSE [set EXCEPT !.elements =
            SubSeq(@, 1, i - 1) \o SubSeq(@, i + 1, Len(@))]

ArraySetClear(set) == [set EXCEPT !.elements = <<>>]

\* --------------------------------------------------------------- HashSet
\* HashSet[E]{elements map[E]struct{}}: a map, nil or allocated. panic records
\* an assignment to an entry of a nil map.
NilMap == [isNil |-> TRUE, elements |-> {}, panic |-> FALSE]

MakeMap == [isNil |-> FALSE, elements |-> {}, panic |-> FALSE]

\* m[element] = struct{}{}
MapAssign(m, element) ==
    IF m.isNil THEN [m EXCEPT !.panic = TRUE]
    ELSE [m EXCEPT !.elements = @ \cup {element}]

\* delete(m, element)
MapDelete(m, element) == [m EXCEPT !.elements = @ \ {element}]

HashSetZero == NilMap

NewHashSet == MakeMap

HashSetFromSlice(elements) ==
    [isNil |-> FALSE, elements |-> Range(elements), panic |-> FALSE]

\* HashSet.Add without the allocation of a nil map.
HashSetAddNoMake(set, element) == MapAssign(set, element)

HashSetAdd(set, element) ==
    MapAssign(IF set.isNil THEN [MakeMap EXCEPT !.panic = set.panic] ELSE set,
              element)

RECURSIVE AssignEach(_, _)
AssignEach(m, elements) ==
    IF elements = <<>> THEN m
    ELSE AssignEach(MapAssign(m, Head(elements)), Tail(elements))

HashSetAddFromSlice(set, elements) ==
    AssignEach(IF set.isNil THEN [MakeMap EXCEPT !.panic = set.panic] ELSE set,
               elements)

RECURSIVE HashAddEach(_, _)
HashAddEach(set, elements) ==
    IF elements = <<>> THEN set
    ELSE HashAddEach(HashSetAdd(set, Head(elements)), Tail(elements))

HashSetMergeWith(set, order) ==
    HashAddEach(IF set.isNil THEN [MakeMap EXCEPT !.panic = set.panic] ELSE set,
                order)

HashSetRemove(set, element) == MapDelete(set, element)

HashSetClear(set) == [set EXCEPT !.elements = {}]

HashSetContains(set, element) ==
    IF set.isNil THEN FALSE ELSE element \in set.elements

HashSetSize(set) == Cardinality(set.elements)

HashSetIsEmpty(set) == Cardinality(set.elements) = 0

\* ----------------------------------------------------------- conversions
\* ArraySet.ToHashSet starting its loop at the second element.
ArraySetToHashSetSkipFirst(set) ==
    AssignEach(MakeMap, IF set.elements = <<>> THEN <<>> ELSE Tail(set.elements))

ArraySetToHashSet(set) ==
    AssignEach(MakeMap, set.elements)

\* The map is ranged over in an unspecified order: every order is an outcome.
HashSetToArraySet(set) ==
    {[isNil |-> FALSE, elements |-> p] : p \in MapOrders(set.elements)}

ArraySetCopyArraySet(set) == [isNil |-> FALSE, elements |-> set.elements]

\* for element := range set.elements { newSet.elements[element] = struct{}{} }
\* Assignments to distinct keys commute: the result is the same map for
\* every order of the range loop.
MapAssignAll(m, keys) ==
    IF keys = {} THEN m
    ELSE IF m.isNil THEN [m EXCEPT !.panic = TRUE]
    ELSE [m EXCEPT !.elements = @ \cup keys]

\* for element := range keys { set.Add(element) }
HashAddAll(set, keys) ==
    IF keys = {} THEN set
    ELSE MapAssignAll(
            IF set.isNil THEN [MakeMap EXCEPT !.panic = set.panic] ELSE set,
            keys)

HashSetCopyHashSet(set) == MapAssignAll(MakeMap, set.elements)

\* ------------------------------------------------ ComparableSet arguments
\* An otherSet argument is a value of one of the set types, tagged with its
\* type; the interface methods dispatch on the tag.
Contains(other, element) ==
    CASE other.type = "ArraySet" -> ArraySetContains(other.set, element)
      [] other.type = "HashSet" -> HashSetContains(other.set, element)
      [] other.type = "DynamicSet" ->
            IF other.set.hash.isNil
            THEN ArraySetContains(other.set.array, element)
            ELSE HashSetContains(other.set.hash, element)

Size(other) ==
    CASE other.type = "ArraySet" -> ArraySetSize(other.set)
      [] other.type = "HashSet" -> HashSetSize(other.set)
      [] other.type = "DynamicSet" ->
            IF other.set.hash.isNil
            THEN ArraySetSize(other.set.array)
            ELSE HashSetSize(other.set.hash)

\* The sequences of elements one call of otherSet.Iterate can yield.
Iterate(other) ==
    CASE other.type = "ArraySet" -> {other.set.elements}
      [] other.type = "HashSet" -> MapOrders(other.set.elements)
      [] other.type = "DynamicSet" ->
            IF other.set.hash.isNil
            THEN {other.set.array.elements}
            ELSE MapOrders(other.set.hash.elements)

\* ------------------------------------------------ ArraySet / HashSet algebra
ArraySetUnionArraySetAppend(set, order) ==
    [isNil |-> FALSE, elements |-> set.elements \o order]

ArraySetUnionArraySet(set, order) ==
    AddEach(AddEach(ArraySetWithCapacity, set.elements), order)

RECURSIVE IntersectLoop(_, _, _)
IntersectLoop(intersection, elements, other) ==
    IF elements = <<>> THEN intersection
    ELSE IntersectLoop(
            IF Contains(other, Head(elements))
            THEN ArraySetAdd(intersection, Head(elements))
            ELSE intersection,
            Tail(elements), other)

ArraySetIntersectionArraySet(set, other) ==
    IntersectLoop(ArraySetWithCapacity, set.elements, other)

HashSetUnionHashSet(set, order) ==
    HashAddEach(HashAddAll(MakeMap, set.elements), order)

HashSetIntersectionHashSetAll(set, other) ==
    HashAddAll(MakeMap, set.elements)

HashSetIntersectionHashSet(set, other) ==
    HashAddAll(MakeMap, {element \in set.elements : Contains(other, element)})

\* ------------------------------------------------------------ DynamicSet
\* DynamicSet[E]{sizeThreshold int; array ArraySet[E]; hash HashSet[E]}
DynamicSetZero ==
    [sizeThreshold |-> 0, array |-> ArraySetZero, hash |-> NilMap]

NewDynamicSet ==
    [sizeThreshold |-> DefaultDynamicSetSizeThreshold,
     array |-> [isNil |-> TRUE, elements |-> <<>>],
     hash |-> NilMap]

DynamicSetWithCapacity ==
    [sizeThreshold |-> DefaultDynamicSetSizeThreshold,
     array |-> ArraySetWithCapacity,
     hash |-> NilMap]

IsArraySet(set) == set.hash.isNil

IsHashSet(set) == ~set.hash.isNil

\* arraySetReachedThreshold comparing with > instead of >=.
arraySetAboveThreshold(set) ==
    Len(set.array.elements) > set.sizeThreshold

arraySetReachedThreshold(set) ==
    Len(set.array.elements) >= set.sizeThreshold

\* hashSetReachedThreshold without the hysteresis: below the threshold.
hashSetUnderThreshold(set) ==
    Cardinality(set.hash.elements) < set.sizeThreshold

\* hashSetReachedThreshold comparing with < instead of <=.
hashSetBelowThreshold(set) ==
    Cardinality(set.hash.elements) < Half(set.sizeThreshold)

hashSetReachedThreshold(set) ==
    Cardinality(set.hash.elements) <= Half(set.sizeThreshold)

\* transformToHashSet that keeps the array's elements.
transformToHashSetKeepArray(set) ==
    [set EXCEPT !.hash = ArraySetToHashSet(set.array)]

transformToHashSet(set) ==
    [set EXCEPT !.hash = ArraySetToHashSet(set.array),
                !.array = [isNil |-> TRUE, elements |-> <<>>]]

transformToArraySet(set) ==
    {[set EXCEPT !.array = a, !.hash.isNil = TRUE, !.hash.elements = {}] :
        a \in HashSetToArraySet(set.hash)}

\* DynamicSetFromSlice that compares the length of the input, duplicates
\* included, with the threshold.
DynamicSetFromSliceByLength(elements) ==
    LET set == [sizeThreshold |-> DefaultDynamicSetSizeThreshold,
                array |-> ArraySetAddFromSlice(ArraySetWithCapacity, elements),
                hash |-> NilMap]
    IN IF Len(elements) >= set.sizeThreshold
       THEN transformToHashSet(set) ELSE set
DynamicSetFromSlice(elements) ==
    LET set == [sizeThreshold |-> DefaultDynamicSetSizeThreshold,
                array |-> ArraySetAddFromSlice(ArraySetWithCapacity, elements),
                hash |-> NilMap]
    IN IF arraySetReachedThreshold(set) THEN transformToHashSet(set) ELSE set

\* SetSizeThreshold that stores the threshold and leaves the mode alone.
DynamicSetSetSizeThresholdOnly(set, sizeThreshold) ==
    {[set EXCEPT !.sizeThreshold = sizeThreshold]}

\* SetSizeThreshold shrinking at half the threshold, as Remove does.
DynamicSetSetSizeThresholdHalf(set, sizeThreshold) ==
    LET s1 == [set EXCEPT !.sizeThreshold = sizeThreshold] IN
    IF IsArraySet(s1)
    THEN IF Len(s1.array.elements) >= sizeThreshold
         THEN {transformToHashSet(s1)} ELSE {s1}
    ELSE IF hashSetReachedThreshold(s1)
         THEN transformToArraySet(s1) ELSE {s1}

DynamicSetSetSizeThreshold(set, sizeThreshold) ==
    LET s1 == [set EXCEPT !.sizeThreshold = sizeThreshold] IN
    IF IsArraySet(s1)
    THEN IF Len(s1.array.elements) >= sizeThreshold
         THEN {transformToHashSet(s1)} ELSE {s1}
    ELSE IF Cardinality(s1.hash.elements) < sizeThreshold
         THEN transformToArraySet(s1) ELSE {s1}

\* DynamicSet.Add transforming only above the threshold.
DynamicSetAddAbove(set, element) ==
    IF IsArraySet(set)
    THEN LET s1 == [set EXCEPT !.array = ArraySetAdd(@, element)] IN
         IF Len(s1.array.elements) > s1.sizeThreshold
         THEN transformToHashSet(s1) ELSE s1
    ELSE [set EXCEPT !.hash = HashSetAdd(@, element)]

\* DynamicSet.Add transforming one element early.
DynamicSetAddEarly(set, element) ==
    IF IsArraySet(set)
    THEN LET s1 == [set EXCEPT !.array = ArraySetAdd(@, element)] IN
         IF Len(s1.array.elements) + 1 >= s1.sizeThreshold
         THEN transformToHashSet(s1) ELSE s1
    ELSE [set EXCEPT !.hash = HashSetAdd(@, element)]

DynamicSetAdd(set, element) ==
    IF IsArraySet(set)
    THEN LET s1 == [set EXCEPT !.array = ArraySetAdd(@, element)] IN
         IF arraySetReachedThreshold(s1) THEN transformToHashSet(s1) ELSE s1
    ELSE [set EXCEPT !.hash = HashSetAdd(@, element)]

\* AddFromSlice that never compares the size with the threshold.
DynamicSetAddFromSliceNoCheck(set, elements) ==
    IF IsArraySet(set)
    THEN [set EXCEPT !.array = ArraySetAddFromSlice(@, elements)]
    ELSE [set EXCEPT !.hash = HashSetAddFromSlice(@, elements)]
DynamicSetAddFromSlice(set, elements) ==
    IF IsArraySet(set)
    THEN LET s1 == [set EXCEPT !.array = ArraySetAddFromSlice(@, elements)] IN
         IF arraySetReachedThreshold(s1) THEN transformToHashSet(s1) ELSE s1
    ELSE [set EXCEPT !.hash = HashSetAddFromSlice(@, elements)]

DynamicSetMergeWith(set, order) ==
    IF IsArraySet(set)
    THEN LET s1 == [set EXCEPT !.array = ArraySetMergeWith(@, order)] IN
         IF arraySetReachedThreshold(s1) THEN transformToHashSet(s1) ELSE s1
    ELSE [set EXCEPT !.hash = HashSetMergeWith(@, order)]

DynamicSetRemove(set, element) ==
    IF IsArraySet(set)
    THEN {[set EXCEPT !.array = ArraySetRemove(@, element)]}
    ELSE LET s1 == [set EXCEPT !.hash = HashSetRemove(@, element)] IN
         IF hashSetReachedThreshold(s1) THEN transformToArraySet(s1) ELSE {s1}

\* Clear that empties the map of a hash-mode set and keeps it allocated.
DynamicSetClearKeepMap(set) ==
    IF IsArraySet(set)
    THEN [set EXCEPT !.array = ArraySetClear(@)]
    ELSE [set EXCEPT !.hash.elements = {}]
DynamicSetClear(set) ==
    IF IsArraySet(set)
    THEN [set EXCEPT !.array = ArraySetClear(@)]
    ELSE [set EXCEPT !.hash.isNil = TRUE, !.hash.elements = {}]

DynamicSetContains(set, element) ==
    IF IsArraySet(set)
    THEN ArraySetContains(set.array, element)
    ELSE HashSetContains(set.hash, element)

DynamicSetSize(set) ==
    IF IsArraySet(set) THEN ArraySetSize(set.array) ELSE HashSetSize(set.hash)

DynamicSetIsEmpty(set) ==
    IF IsArraySet(set)
    THEN ArraySetIsEmpty(set.array) ELSE HashSetIsEmpty(set.hash)

DynamicSetUnionDynamicSetOwn(set, order) ==
    IF IsArraySet(set)
    THEN {[sizeThreshold |-> set.sizeThreshold,
           array |-> ArraySetCopyArraySet(set.array),
           hash |-> NilMap]}
    ELSE {[sizeThreshold |-> set.sizeThreshold,
           array |-> [isNil |-> TRUE, elements |-> <<>>],
           hash |-> HashSetCopyHashSet(set.hash)]}

DynamicSetUnionDynamicSet(set, order) ==
    IF IsArraySet(set)
    THEN LET union == [sizeThreshold |-> set.sizeThreshold,
                       array |-> ArraySetUnionArraySet(set.array, order),
                       hash |-> NilMap]
         IN {IF arraySetReachedThreshold(union)
             THEN transformToHashSet(union) ELSE union}
    ELSE {[sizeThreshold |-> set.sizeThreshold,
           array |-> [isNil |-> TRUE, elements |-> <<>>],
           hash |-> HashSetUnionHashSet(set.hash, order)]}

\* IntersectionDynamicSet that never checks hashSetReachedThreshold.
DynamicSetIntersectionDynamicSetKeepMode(set, other) ==
    IF IsArraySet(set)
    THEN {[sizeThreshold |-> set.sizeThreshold,
           array |-> ArraySetIntersectionArraySet(set.array, other),
           hash |-> NilMap]}
    ELSE {[sizeThreshold |-> set.sizeThreshold,
           array |-> [isNil |-> TRUE, elements |-> <<>>],
           hash |-> HashSetIntersectionHashSet(set.hash, other)]}
DynamicSetIntersectionDynamicSet(set, other) ==
    IF IsArraySet(set)
    THEN {[sizeThreshold |-> set.sizeThreshold,
           array |-> ArraySetIntersectionArraySet(set.array, other),
           hash |-> NilMap]}
    ELSE LET intersection ==
                [sizeThreshold |-> set.sizeThreshold,
                 array |-> [isNil |-> TRUE, elements |-> <<>>],
                 hash |-> HashSetIntersectionHashSet(set.hash, other)]
         IN IF hashSetReachedThreshold(intersection)
            THEN transformToArraySet(intersection) ELSE {intersection}

\* CopyDynamicSet that gives the copy the default threshold.
DynamicSetCopyDynamicSetDefault(set) ==
    IF IsArraySet(set)
    THEN {[sizeThreshold |-> DefaultDynamicSetSizeThreshold,
           array |-> ArraySetCopyArraySet(set.array),
           hash |-> NilMap]}
    ELSE {[sizeThreshold |-> DefaultDynamicSetSizeThreshold,
           array |-> [isNil |-> TRUE, elements |-> <<>>],
           hash |-> HashSetCopyHashSet(set.hash)]}
DynamicSetCopyDynamicSet(set) ==
    IF IsArraySet(set)
    THEN {[sizeThreshold |-> set.sizeThreshold,
           array |-> ArraySetCopyArraySet(set.array),
           hash |-> NilMap]}
    ELSE {[sizeThreshold |-> set.sizeThreshold,
           array |-> [isNil |-> TRUE, elements |-> <<>>],
           hash |-> HashSetCopyHashSet(set.hash)]}

ArraySetToDynamicSet(set) ==
    IF Len(set.elements) < DefaultDynamicSetSizeThreshold
    THEN [sizeThreshold |-> DefaultDynamicSetSizeThreshold,
          array |-> ArraySetCopyArraySet(set),
          hash |-> NilMap]
    ELSE [sizeThreshold |-> DefaultDynamicSetSizeThreshold,
          array |-> [isNil |-> TRUE, elements |-> <<>>],
          hash |-> ArraySetToHashSet(set)]

HashSetToDynamicSet(set) ==
    IF Cardinality(set.elements) >= DefaultDynamicSetSizeThreshold
    THEN {[sizeThreshold |-> DefaultDynamicSetSizeThreshold,
           array |-> [isNil |-> TRUE, elements |-> <<>>],
           hash |-> HashSetCopyHashSet(set)]}
    ELSE {[sizeThreshold |-> DefaultDynamicSetSizeThreshold,
           array |-> a,
           hash |-> NilMap] : a \in HashSetToArraySet(set)}

DynamicSetAddMultiple(set, elements) == DynamicSetAddFromSlice(set, elements)

\* ------------------------------------------- ComparableSet predicates
ArraySetIsSubsetOf(set, otherSet) ==
    \A i \in 1..Len(set.elements) : Contains(otherSet, set.elements[i])

HashSetIsSubsetOf(set, otherSet) ==
    \A element \in set.elements : Contains(otherSet, element)

\* set.IsSubsetOf(otherSet): the interface call on a tagged set. A
\* DynamicSet passes the call to its active field.
IsSubsetOf(set, otherSet) ==
    CASE set.type = "ArraySet" -> ArraySetIsSubsetOf(set.set, otherSet)
      [] set.type = "HashSet" -> HashSetIsSubsetOf(set.set, otherSet)
      [] set.type = "DynamicSet" ->
            IF IsArraySet(set.set)
            THEN ArraySetIsSubsetOf(set.set.array, otherSet)
            ELSE HashSetIsSubsetOf(set.set.hash, otherSet)

ArraySetIsSupersetOfSwapped(set, otherSet) ==
    ArraySetIsSubsetOf(set, otherSet)

ArraySetIsSupersetOf(set, otherSet) ==
    IsSubsetOf(otherSet, [type |-> "ArraySet", set |-> set])

HashSetIsSupersetOf(set, otherSet) ==
    IsSubsetOf(otherSet, [type |-> "HashSet", set |-> set])

\* A DynamicSet passes the call to its active field: the receiver the
\* ArraySet or HashSet method sees is that field, not the DynamicSet.
IsSupersetOf(set, otherSet) ==
    CASE set.type = "ArraySet" -> ArraySetIsSupersetOf(set.set, otherSet)
      [] set.type = "HashSet" -> HashSetIsSupersetOf(set.set, otherSet)
      [] set.type = "DynamicSet" ->
            IF IsArraySet(set.set)
            THEN ArraySetIsSupersetOf(set.set.array, otherSet)
            ELSE HashSetIsSupersetOf(set.set.hash, otherSet)

ArraySetEqualsNoSize(set, otherSet) ==
    ArraySetIsSubsetOf(set, otherSet)

ArraySetEquals(set, otherSet) ==
    ArraySetSize(set) = Size(otherSet) /\ ArraySetIsSubsetOf(set, otherSet)

HashSetEquals(set, otherSet) ==
    HashSetSize(set) = Size(otherSet) /\ HashSetIsSubsetOf(set, otherSet)

Equals(set, otherSet) ==
    CASE set.type = "ArraySet" -> ArraySetEquals(set.set, otherSet)
      [] set.type = "HashSet" -> HashSetEquals(set.set, otherSet)
      [] set.type = "DynamicSet" ->
            IF IsArraySet(set.set)
            THEN ArraySetEquals(set.set.array, otherSet)
            ELSE HashSetEquals(set.set.hash, otherSet)

\* set.Union(otherSet) and set.Intersection(otherSet) on a tagged set: the
\* results the call can return, one per order in which maps are ranged over.
ComparableSetUnion(set, otherSet) ==
    CASE set.type = "ArraySet" ->
            {[type |-> "ArraySet", set |-> ArraySetUnionArraySet(set.set, o)]
                : o \in Iterate(otherSet)}
      [] set.type = "HashSet" ->
            {[type |-> "HashSet", set |-> HashSetUnionHashSet(set.set, o)]
                : o \in Iterate(otherSet)}
      [] set.type = "DynamicSet" ->
            {[type |-> "DynamicSet", set |-> u]
                : u \in UNION {DynamicSetUnionDynamicSet(set.set, o)
                                : o \in Iterate(otherSet)}}

ComparableSetIntersection(set, otherSet) ==
    CASE set.type = "ArraySet" ->
            {[type |-> "ArraySet",
              set |-> ArraySetIntersectionArraySet(set.set, otherSet)]}
      [] set.type = "HashSet" ->
            {[type |-> "HashSet",
              set |-> HashSetIntersectionHashSet(set.set, otherSet)]}
      [] set.type = "DynamicSet" ->
            {[type |-> "DynamicSet", set |-> i]
                : i \in DynamicSetIntersectionDynamicSet(set.set, otherSet)}

\* ------------------------------------------------------------ exports
\* make([]E, n): n zero values.
MakeSlice(n) == [i \in 1..n |-> 0]

\* copy(dst, src): the first min(len(dst), len(src)) elements of src
\* overwrite those of dst.
CopySlice(dst, src) ==
    [i \in 1..Len(dst) |-> IF i <= Len(src) THEN src[i] ELSE dst[i]]

ArraySetToSliceNoLen(set) == CopySlice(MakeSlice(0), set.elements)

ArraySetToSlice(set) ==
    CopySlice(MakeSlice(Len(set.elements)), set.elements)

\* slice[i] = element for the i-th key the range loop visits.
HashSetToSlice(set) ==
    {[i \in 1..Cardinality(set.elements) |-> order[i]]
        : order \in MapOrders(set.elements)}

ArraySetToMap(set) == AssignEach(MakeMap, set.elements)

HashSetToMap(set) == MapAssignAll(MakeMap, set.elements)

\* The sets passed as otherSet to the operations under test.
OtherSets ==
    {[type |-> "ArraySet", set |-> ArraySetFromSlice(s)] : s \in Slices}
    \cup {[type |-> "HashSet", set |-> HashSetFromSlice(s)] : s \in Slices}

\* Sets of every representation: the DynamicSets are built from a slice
\* and then given a threshold, which leaves them in array mode, or in hash
\* mode when the threshold is at or below their size.
Operands ==
    OtherSets
    \cup {[type |-> "DynamicSet", set |-> d]
            : d \in UNION {
                DynamicSetSetSizeThreshold(DynamicSetFromSlice(s), t)
                    : s \in Slices,
                      t \in Thresholds \cup {DefaultDynamicSetSizeThreshold}}}

\* ----------------------------------------------------------------- memory
\* Slices and maps as the Go runtime holds them. A slice is a window
\* [array, len] on a backing array whose length is the slice's capacity;
\* every slice of the package starts at the first cell of its array. A map
\* is a reference. The reference 0 is nil. Two slices with the same array
\* share its cells.
ArrayIds == 1..MaxArrays

\* The elements used with the sets held in memory.
MemElems == 1..MaxMemElem

MapIds == 1..MaxMaps

EmptyMemory ==
    [arrays |-> [id \in ArrayIds |-> <<>>], liveArrays |-> {},
     maps |-> [id \in MapIds |-> {}], liveMaps |-> {}]

NilSlice == [array |-> 0, len |-> 0]

SliceCap(mem, slice) ==
    IF slice.array = 0 THEN 0 ELSE Len(mem.arrays[slice.array])

\* The elements seen through a slice.
SliceElements(mem, slice) ==
    [i \in 1..slice.len |-> mem.arrays[slice.array][i]]

MapKeys(mem, map) == IF map = 0 THEN {} ELSE mem.maps[map]

\* make([]E, len, cap): a new array of cap zero values, under the first
\* free reference.
MemMakeSlice(mem, len, cap) ==
    LET id == CHOOSE id \in ArrayIds \ mem.liveArrays :
                \A other \in ArrayIds \ mem.liveArrays : id <= other
    IN
    [mem |-> [mem EXCEPT !.arrays[id] = [i \in 1..cap |-> 0],
                         !.liveArrays = @ \cup {id}],
     slice |-> [array |-> id, len |-> len]]

\* make(map[E]struct{}) with the given keys assigned.
MemMakeMap(mem, keys) ==
    LET id == CHOOSE id \in MapIds \ mem.liveMaps :
                \A other \in MapIds \ mem.liveMaps : id <= other
    IN
    [mem |-> [mem EXCEPT !.maps[id] = keys, !.liveMaps = @ \cup {id}],
     map |-> id]

\* slice[i] = src[i] for the first len(src) cells of the slice's array.
MemFill(mem, slice, src) ==
    [mem EXCEPT !.arrays[slice.array] =
        [i \in 1..Len(@) |-> IF i <= Len(src) THEN src[i] ELSE @[i]]]

\* --------------------------------------------- ArraySet and HashSet in memory
MemArraySetContains(mem, slice, element) ==
    \E i \in 1..slice.len : mem.arrays[slice.array][i] = element

\* append(set.elements, element): in place when the capacity allows it,
\* else into a new array of twice the capacity (the runtime's growth for
\* small slices); the old array keeps its cells.
MemArraySetAdd(mem, slice, element) ==
    IF MemArraySetContains(mem, slice, element)
    THEN [mem |-> mem, slice |-> slice]
    ELSE IF slice.len < SliceCap(mem, slice)
    THEN [mem |-> [mem EXCEPT !.arrays[slice.array][slice.len + 1] = element],
          slice |-> [slice EXCEPT !.len = @ + 1]]
    ELSE LET cap == IF SliceCap(mem, slice) = 0
                    THEN 1 ELSE 2 * SliceCap(mem, slice)
             made == MemMakeSlice(mem, slice.len + 1, cap)
         IN [mem |-> MemFill(made.mem, made.slice,
                             Append(SliceElements(mem, slice), element)),
             slice |-> made.slice]

RECURSIVE MemAddEach(_, _, _)
MemAddEach(mem, slice, elements) ==
    IF elements = <<>> THEN [mem |-> mem, slice |-> slice]
    ELSE LET added == MemArraySetAdd(mem, slice, Head(elements)) IN
         MemAddEach(added.mem, added.slice, Tail(elements))

MemArraySetFromSlice(mem, elements) ==
    LET made == MemMakeSlice(mem, 0, Len(elements)) IN
    MemAddEach(made.mem, made.slice, elements)

\* append(set.elements[:i], set.elements[i+1:]...): the cells after the
\* removed one move one place down in the same array; the last cell keeps
\* its old value beyond the new length.
MemArraySetRemove(mem, slice, element) ==
    IF MemArraySetContains(mem, slice, element)
    THEN LET i == CHOOSE i \in 1..slice.len :
                    /\ mem.arrays[slice.array][i] = element
                    /\ \A j \in 1..(i - 1) :
                        mem.arrays[slice.array][j] # element
         IN [mem |-> [mem EXCEPT !.arrays[slice.array] =
                        [j \in 1..Len(@) |->
                            IF j >= i /\ j < slice.len THEN @[j + 1] ELSE @[j]]],
             slice |-> [slice EXCEPT !.len = @ - 1]]
    ELSE [mem |-> mem, slice |-> slice]

MemCopyArraySetShared(mem, slice) ==
    [mem |-> mem, slice |-> slice]

\* make([]E, len, cap) and copy.
MemCopyArraySet(mem, slice) ==
    LET made == MemMakeSlice(mem, slice.len, SliceCap(mem, slice)) IN
    [mem |-> MemFill(made.mem, made.slice, SliceElements(mem, slice)),
     slice |-> made.slice]

MemHashSetAdd(mem, map, element) ==
    IF map = 0
    THEN MemMakeMap(mem, {element})
    ELSE [mem |-> [mem EXCEPT !.maps[map] = @ \cup {element}], map |-> map]

MemHashSetRemove(mem, map, element) ==
    IF map = 0
    THEN [mem |-> mem, map |-> map]
    ELSE [mem |-> [mem EXCEPT !.maps[map] = @ \ {element}], map |-> map]

MemCopyHashSet(mem, map) == MemMakeMap(mem, MapKeys(mem, map))

\* HashSet.ToSlice and HashSet.ToArraySet: a new array filled in the order
\* of the range loop; one outcome per order.
MemHashSetToSlice(mem, map) ==
    {LET made == MemMakeSlice(mem, Len(order), Len(order)) IN
     [mem |-> MemFill(made.mem, made.slice, order), slice |-> made.slice]
        : order \in MapOrders(MapKeys(mem, map))}

\* ------------------------------------------------------- sets in memory
\* A set of one of the three types: ArraySet uses the array field, HashSet
\* the hash field, DynamicSet both and the threshold.
SetTypes == {"ArraySet", "HashSet", "DynamicSet"}

MemZeroValue(type) ==
    [type |-> type, sizeThreshold |-> 0, array |-> NilSlice, hash |-> 0]

NoSet == MemZeroValue("none")

\* The set keeps its elements in its slice: an ArraySet, or a DynamicSet
\* whose map is nil.
MemIsArraySet(set) ==
    \/ set.type = "ArraySet"
    \/ set.type = "DynamicSet" /\ set.hash = 0

MemElements(mem, set) ==
    IF MemIsArraySet(set)
    THEN Range(SliceElements(mem, set.array))
    ELSE MapKeys(mem, set.hash)

MemSize(mem, set) ==
    IF MemIsArraySet(set)
    THEN set.array.len ELSE Cardinality(MapKeys(mem, set.hash))

\* What the package's methods can observe of a set.
MemView(mem, set) ==
    [type |-> set.type,
     sizeThreshold |-> set.sizeThreshold,
     isArraySet |-> MemIsArraySet(set),
     order |-> IF MemIsArraySet(set)
               THEN SliceElements(mem, set.array) ELSE <<>>,
     elements |-> MemElements(mem, set)]

MemTransformToHashSet(mem, set) ==
    LET made == MemMakeMap(mem, Range(SliceElements(mem, set.array))) IN
    [mem |-> made.mem,
     set |-> [set EXCEPT !.hash = made.map, !.array = NilSlice]]

MemTransformToArraySet(mem, set) ==
    {[mem |-> r.mem, set |-> [set EXCEPT !.array = r.slice, !.hash = 0]]
        : r \in MemHashSetToSlice(mem, set.hash)}

MemNewDynamicSet ==
    [MemZeroValue("DynamicSet")
        EXCEPT !.sizeThreshold = DefaultDynamicSetSizeThreshold]

\* ArraySet.Add, HashSet.Add and DynamicSet.Add, which adds to the active
\* store and transforms when the slice reached the threshold.
MemAdd(mem, set, element) ==
    IF MemIsArraySet(set)
    THEN LET r == MemArraySetAdd(mem, set.array, element)
             s1 == [set EXCEPT !.array = r.slice]
         IN IF set.type = "DynamicSet" /\ s1.array.len >= s1.sizeThreshold
            THEN MemTransformToHashSet(r.mem, s1)
            ELSE [mem |-> r.mem, set |-> s1]
    ELSE LET r == MemHashSetAdd(mem, set.hash, element) IN
         [mem |-> r.mem, set |-> [set EXCEPT !.hash = r.map]]

\* ArraySet.Remove, HashSet.Remove and DynamicSet.Remove, which removes
\* from the active store and transforms when the map is down to half the
\* threshold.
MemRemove(mem, set, element) ==
    IF MemIsArraySet(set)
    THEN LET r == MemArraySetRemove(mem, set.array, element) IN
         {[mem |-> r.mem, set |-> [set EXCEPT !.array = r.slice]]}
    ELSE LET r == MemHashSetRemove(mem, set.hash, element) IN
         IF set.type = "DynamicSet"
            /\ Cardinality(MapKeys(r.mem, set.hash)) <= Half(set.sizeThreshold)
         THEN MemTransformToArraySet(r.mem, set)
         ELSE {[mem |-> r.mem, set |-> set]}

\* ArraySet.Clear: set.elements = set.elements[:0]. HashSet.Clear deletes
\* every key of the map (a nil map has none). DynamicSet.Clear drops the
\* map in hash mode: set.hash.elements = nil.
MemClear(mem, set) ==
    IF MemIsArraySet(set)
    THEN [mem |-> mem, set |-> [set EXCEPT !.array.len = 0]]
    ELSE IF set.type = "HashSet"
    THEN [mem |-> IF set.hash = 0 THEN mem
                  ELSE [mem EXCEPT !.maps[set.hash] = {}],
          set |-> set]
    ELSE [mem |-> mem, set |-> [set EXCEPT !.hash = 0]]

MemSetSizeThreshold(mem, set, sizeThreshold) ==
    LET s1 == [set EXCEPT !.sizeThreshold = sizeThreshold] IN
    IF MemIsArraySet(s1)
    THEN IF s1.array.len >= sizeThreshold
         THEN {MemTransformToHashSet(mem, s1)}
         ELSE {[mem |-> mem, set |-> s1]}
    ELSE IF Cardinality(MapKeys(mem, s1.hash)) < sizeThreshold
         THEN MemTransformToArraySet(mem, s1)
         ELSE {[mem |-> mem, set |-> s1]}

\* CopyArraySet, CopyHashSet and CopyDynamicSet, which copies the active
\* store and the threshold.
MemCopy(mem, set) ==
    IF MemIsArraySet(set)
    THEN LET r == MemCopyArraySet(mem, set.array) IN
         [mem |-> r.mem,
          set |-> [MemZeroValue(set.type)
                    EXCEPT !.sizeThreshold = set.sizeThreshold,
                           !.array = r.slice]]
    ELSE LET r == MemCopyHashSet(mem, set.hash) IN
         [mem |-> r.mem,
          set |-> [MemZeroValue(set.type)
                    EXCEPT !.sizeThreshold = set.sizeThreshold,
                           !.hash = r.map]]

\* ToSlice with the ArraySet.ToSlice of array_set.go:215: make and copy.
MemToSlice(mem, set) ==
    IF MemIsArraySet(set)
    THEN LET made == MemMakeSlice(mem, set.array.len, set.array.len) IN
         {[mem |-> MemFill(made.mem, made.slice,
                           SliceElements(mem, set.array)),
           slice |-> made.slice]}
    ELSE MemHashSetToSlice(mem, set.hash)

\* ToSlice with the ArraySet.ToSlice of array_set.go:524: return
\* set.elements.
MemToSliceBacking(mem, set) ==
    IF MemIsArraySet(set)
    THEN {[mem |-> mem, slice |-> set.array]}
    ELSE MemHashSetToSlice(mem, set.hash)

\* What the garbage collector leaves: the arrays and maps that the given
\* sets and slice refer to.
Collect(mem, sets, slice) ==
    LET liveArrays == ({set.array.array : set \in sets} \cup {slice.array})
                        \ {0}
        liveMaps == {set.hash : set \in sets} \ {0}
    IN [arrays |-> [id \in ArrayIds |->
                        IF id \in liveArrays THEN mem.arrays[id] ELSE <<>>],
        liveArrays |-> liveArrays,
        maps |-> [id \in MapIds |->
                        IF id \in liveMaps THEN mem.maps[id] ELSE {}],
        liveMaps |-> liveMaps]

\* ------------------------------------------- ComparableSet calls in memory
MemContains(mem, set, element) ==
    IF MemIsArraySet(set)
    THEN MemArraySetContains(mem, set.array, element)
    ELSE element \in MapKeys(mem, set.hash)

MemIsSubsetOf(mem, set, otherSet) ==
    \A element \in MemElements(mem, set) : MemContains(mem, otherSet, element)

MemEquals(mem, set, otherSet) ==
    MemSize(mem, set) = MemSize(mem, otherSet)
        /\ MemIsSubsetOf(mem, set, otherSet)

\* The sequences one otherSet.Iterate can yield.
MemIterate(mem, set) ==
    IF MemIsArraySet(set)
    THEN {SliceElements(mem, set.array)}
    ELSE MapOrders(MapKeys(mem, set.hash))

MemArraySetUnionArraySet(mem, slice, order) ==
    LET made == MemMakeSlice(mem, 0, slice.len + Len(order))
        own == MemAddEach(made.mem, made.slice, SliceElements(mem, slice))
    IN MemAddEach(own.mem, own.slice, order)

\* An intersection that filters the receiver's slice in place:
\* intersection := ArraySet{elements: set.elements[:0]}.
MemArraySetIntersectionInPlace(mem, slice, otherSet) ==
    MemAddEach(mem, [slice EXCEPT !.len = 0],
               SelectSeq(SliceElements(mem, slice),
                         LAMBDA element : MemContains(mem, otherSet, element)))

MemArraySetIntersectionArraySet(mem, slice, otherSet) ==
    LET capacity == IF slice.len < MemSize(mem, otherSet)
                    THEN slice.len ELSE MemSize(mem, otherSet)
        made == MemMakeSlice(mem, 0, capacity)
    IN MemAddEach(made.mem, made.slice,
                  SelectSeq(SliceElements(mem, slice),
                            LAMBDA element : MemContains(mem, otherSet, element)))

MemHashSetUnionHashSet(mem, map, order) ==
    MemMakeMap(mem, MapKeys(mem, map) \cup Range(order))

MemHashSetIntersectionHashSet(mem, map, otherSet) ==
    MemMakeMap(mem, {element \in MapKeys(mem, map)
                        : MemContains(mem, otherSet, element)})

\* set.Union(otherSet), otherSet yielding its elements in the given order.
MemUnion(mem, set, order) ==
    CASE set.type = "ArraySet" ->
            LET r == MemArraySetUnionArraySet(mem, set.array, order) IN
            [mem |-> r.mem,
             set |-> [MemZeroValue("ArraySet") EXCEPT !.array = r.slice]]
      [] set.type = "HashSet" ->
            LET r == MemHashSetUnionHashSet(mem, set.hash, order) IN
            [mem |-> r.mem,
             set |-> [MemZeroValue("HashSet") EXCEPT !.hash = r.map]]
      [] set.type = "DynamicSet" ->
            IF MemIsArraySet(set)
            THEN LET r == MemArraySetUnionArraySet(mem, set.array, order)
                     union == [MemZeroValue("DynamicSet")
                                EXCEPT !.sizeThreshold = set.sizeThreshold,
                                       !.array = r.slice]
                 IN IF union.array.len >= union.sizeThreshold
                    THEN MemTransformToHashSet(r.mem, union)
                    ELSE [mem |-> r.mem, set |-> union]
            ELSE LET r == MemHashSetUnionHashSet(mem, set.hash, order) IN
                 [mem |-> r.mem,
                  set |-> [MemZeroValue("DynamicSet")
                            EXCEPT !.sizeThreshold = set.sizeThreshold,
                                   !.hash = r.map]]

\* set.Intersection(otherSet): the results it can return.
MemIntersection(mem, set, otherSet) ==
    CASE set.type = "ArraySet" ->
            LET r == MemArraySetIntersectionArraySet(mem, set.array, otherSet)
            IN {[mem |-> r.mem,
                 set |-> [MemZeroValue("ArraySet") EXCEPT !.array = r.slice]]}
      [] set.type = "HashSet" ->
            LET r == MemHashSetIntersectionHashSet(mem, set.hash, otherSet)
            IN {[mem |-> r.mem,
                 set |-> [MemZeroValue("HashSet") EXCEPT !.hash = r.map]]}
      [] set.type = "DynamicSet" ->
            IF MemIsArraySet(set)
            THEN LET r == MemArraySetIntersectionArraySet(
                            mem, set.array, otherSet)
                 IN {[mem |-> r.mem,
                      set |-> [MemZeroValue("DynamicSet")
                                EXCEPT !.sizeThreshold = set.sizeThreshold,
                                       !.array = r.slice]]}
            ELSE LET r == MemHashSetIntersectionHashSet(
                            mem, set.hash, otherSet)
                     intersection ==
                        [MemZeroValue("DynamicSet")
                            EXCEPT !.sizeThreshold = set.sizeThreshold,
                                   !.hash = r.map]
                 IN IF Cardinality(MapKeys(r.mem, r.map))
                        <= Half(intersection.sizeThreshold)
                    THEN MemTransformToArraySet(r.mem, intersection)
                    ELSE {[mem |-> r.mem, set |-> intersection]}

\* ------------------------------------------------------------------ state
VARIABLES
    arraySet,    \* the ArraySet under test
    hashSet,     \* the HashSet under test
    dynamicSet,  \* the DynamicSet under test
    ref,         \* the elements the operations so far should have left
    lastOp,      \* the last operation, and dynamicSet's mode and size before it
    phase,       \* "new", "add" (only Add so far), "bulk" (only additions), "mixed"
    zeroValue,   \* [array, hash, dynamic]: the zero values of the three types
    constructed, \* [array, hash, dynamic]: NewArraySet, NewHashSet, NewDynamicSet
    memory,      \* the backing arrays and maps
    original,    \* a set held by reference to memory
    duplicate,   \* the set a Copy of original returned, or NoSet
    returned,    \* the slice a ToSlice of original returned, and its
                 \* elements when it was returned
    call,        \* the last call on original or duplicate
    receiver,    \* a set of any type, tagged with its type
    applied      \* the last operation on receiver

vars == <<arraySet, hashSet, dynamicSet, ref, lastOp, phase,
          zeroValue, constructed,
          memory, original, duplicate, returned, call,
          receiver, applied>>

memVars == <<memory, original, duplicate, returned, call>>

pairVars == <<receiver, applied>>

\* No tagged set is under test.
PairIdle ==
    /\ receiver = [type |-> "none", set |-> <<>>]
    /\ applied = "none"

NoSlice ==
    [present |-> FALSE, slice |-> NilSlice, elements |-> <<>>,
     backing |-> FALSE, ofArraySet |-> FALSE]

\* No set is held in memory.
MemIdle ==
    /\ memory = EmptyMemory
    /\ original = NoSet
    /\ duplicate = NoSet
    /\ returned = NoSlice
    /\ call = [op |-> "none", on |-> "none", answer |-> <<>>]

ZeroValues ==
    [array |-> ArraySetZero, hash |-> HashSetZero, dynamic |-> DynamicSetZero]

Constructed ==
    [array |-> NewArraySet, hash |-> NewHashSet, dynamic |-> NewDynamicSet]

Op(name) ==
    [op |-> name,
     preHash |-> IsHashSet(dynamicSet),
     preSize |-> DynamicSetSize(dynamicSet)]

\* The constructors of set_test.go: zero values, New*, *WithCapacity, *FromSlice.
Init ==
    /\ MemIdle
    /\ PairIdle
    /\ zeroValue = ZeroValues
    /\ constructed = Constructed
    /\ \/ /\ arraySet = ArraySetZero
          /\ hashSet = HashSetZero
          /\ dynamicSet = DynamicSetZero
          /\ ref = {}
          /\ lastOp = [op |-> "zero", preHash |-> FALSE, preSize |-> 0]
          /\ phase = "new"
       \/ /\ arraySet = NewArraySet
          /\ hashSet = NewHashSet
          /\ dynamicSet = NewDynamicSet
          /\ ref = {}
          /\ lastOp = [op |-> "New", preHash |-> FALSE, preSize |-> 0]
          /\ phase = "new"
       \/ /\ arraySet = ArraySetWithCapacity
          /\ hashSet = MakeMap
          /\ dynamicSet = DynamicSetWithCapacity
          /\ ref = {}
          /\ lastOp = [op |-> "WithCapacity", preHash |-> FALSE, preSize |-> 0]
          /\ phase = "new"
       \/ \E s \in Slices :
          /\ arraySet = ArraySetFromSlice(s)
          /\ hashSet = HashSetFromSlice(s)
          /\ dynamicSet = DynamicSetFromSlice(s)
          /\ ref = Range(s)
          /\ lastOp = [op |-> "FromSlice", preHash |-> FALSE, preSize |-> 0]
          /\ phase = "bulk"

Add(element) ==
    /\ arraySet' = ArraySetAdd(arraySet, element)
    /\ hashSet' = HashSetAdd(hashSet, element)
    /\ dynamicSet' = DynamicSetAdd(dynamicSet, element)
    /\ ref' = ref \cup {element}
    /\ lastOp' = Op("Add")
    /\ UNCHANGED <<zeroValue, constructed, memVars, pairVars>>
    /\ phase' = IF phase = "new" THEN "add" ELSE phase

AddMultiple(elements) ==
    /\ arraySet' = ArraySetAddFromSlice(arraySet, elements)
    /\ hashSet' = HashSetAddFromSlice(hashSet, elements)
    /\ dynamicSet' = DynamicSetAddMultiple(dynamicSet, elements)
    /\ ref' = ref \cup Range(elements)
    /\ lastOp' = Op("AddMultiple")
    /\ UNCHANGED <<zeroValue, constructed, memVars, pairVars>>
    /\ phase' = IF phase = "mixed" THEN "mixed" ELSE "bulk"

AddFromSlice(elements) ==
    /\ arraySet' = ArraySetAddFromSlice(arraySet, elements)
    /\ hashSet' = HashSetAddFromSlice(hashSet, elements)
    /\ dynamicSet' = DynamicSetAddFromSlice(dynamicSet, elements)
    /\ ref' = ref \cup Range(elements)
    /\ lastOp' = Op("AddFromSlice")
    /\ UNCHANGED <<zeroValue, constructed, memVars, pairVars>>
    /\ phase' = IF phase = "mixed" THEN "mixed" ELSE "bulk"

MergeWith(other) ==
    \E o1 \in Iterate(other) :
        /\ arraySet' = ArraySetMergeWith(arraySet, o1)
        /\ hashSet' = HashSetMergeWith(hashSet, o1)
        /\ dynamicSet' \in {DynamicSetMergeWith(dynamicSet, o2)
                            : o2 \in Iterate(other)}
        /\ ref' = ref \cup Range(o1)
        /\ lastOp' = Op("MergeWith")
        /\ UNCHANGED <<zeroValue, constructed, memVars, pairVars>>
        /\ phase' = IF phase = "mixed" THEN "mixed" ELSE "bulk"

Remove(element) ==
    /\ arraySet' = ArraySetRemove(arraySet, element)
    /\ hashSet' = HashSetRemove(hashSet, element)
    /\ dynamicSet' \in DynamicSetRemove(dynamicSet, element)
    /\ ref' = ref \ {element}
    /\ lastOp' = Op("Remove")
    /\ UNCHANGED <<zeroValue, constructed, memVars, pairVars>>
    /\ phase' = "mixed"

Clear ==
    /\ arraySet' = ArraySetClear(arraySet)
    /\ hashSet' = HashSetClear(hashSet)
    /\ dynamicSet' = DynamicSetClear(dynamicSet)
    /\ ref' = {}
    /\ lastOp' = Op("Clear")
    /\ UNCHANGED <<zeroValue, constructed, memVars, pairVars>>
    /\ phase' = "mixed"

SetSizeThreshold(sizeThreshold) ==
    /\ dynamicSet' \in DynamicSetSetSizeThreshold(dynamicSet, sizeThreshold)
    /\ lastOp' = Op("SetSizeThreshold")
    /\ UNCHANGED <<zeroValue, constructed, memVars, pairVars>>
    /\ phase' = IF phase = "new" THEN "new" ELSE "mixed"
    /\ UNCHANGED <<arraySet, hashSet, ref>>

\* set = set.Union(otherSet), on each of the three sets
Union(other) ==
    \E o1 \in Iterate(other) :
        /\ arraySet' = ArraySetUnionArraySet(arraySet, o1)
        /\ hashSet' = HashSetUnionHashSet(hashSet, o1)
        /\ dynamicSet' \in UNION {DynamicSetUnionDynamicSet(dynamicSet, o2)
                                  : o2 \in Iterate(other)}
        /\ ref' = ref \cup Range(o1)
        /\ lastOp' = Op("Union")
        /\ UNCHANGED <<zeroValue, constructed, memVars, pairVars>>
        /\ phase' = "mixed"

\* set = set.Intersection(otherSet), on each of the three sets
Intersection(other) ==
    /\ arraySet' = ArraySetIntersectionArraySet(arraySet, other)
    /\ hashSet' = HashSetIntersectionHashSet(hashSet, other)
    /\ dynamicSet' \in DynamicSetIntersectionDynamicSet(dynamicSet, other)
    /\ ref' = {e \in ref : Contains(other, e)}
    /\ lastOp' = Op("Intersection")
    /\ UNCHANGED <<zeroValue, constructed, memVars, pairVars>>
    /\ phase' = "mixed"

\* set = set.Copy(), on each of the three sets
Copy ==
    /\ arraySet' = ArraySetCopyArraySet(arraySet)
    /\ hashSet' = HashSetCopyHashSet(hashSet)
    /\ dynamicSet' \in DynamicSetCopyDynamicSet(dynamicSet)
    /\ lastOp' = Op("Copy")
    /\ UNCHANGED <<zeroValue, constructed, memVars, pairVars>>
    /\ phase' = "mixed"
    /\ UNCHANGED ref

\* dynamicSet = arraySet.ToDynamicSet(), or = hashSet.ToDynamicSet()
ToDynamicSet ==
    /\ dynamicSet' \in
        {ArraySetToDynamicSet(arraySet)} \cup HashSetToDynamicSet(hashSet)
    /\ lastOp' = Op("ToDynamicSet")
    /\ phase' = "mixed"
    /\ UNCHANGED <<arraySet, hashSet, ref, zeroValue, constructed, memVars,
                 pairVars>>

Next ==
    \/ \E element \in Elems : Add(element)
    \/ \E elements \in Slices : AddMultiple(elements)
    \/ \E elements \in Slices : AddFromSlice(elements)
    \/ \E other \in OtherSets : MergeWith(other)
    \/ \E element \in Elems : Remove(element)
    \/ Clear
    \/ \E sizeThreshold \in Thresholds : SetSizeThreshold(sizeThreshold)
    \/ \E other \in OtherSets : Union(other)
    \/ \E other \in OtherSets : Intersection(other)
    \/ Copy
    \/ ToDynamicSet

Spec == Init /\ [][Next]_vars

\* --------------------------------------------- zero values and New values
\* The operations of the Set interface, applied to the zero value of each
\* type and, identically, to the value its New constructor returns.
ZeroInit ==
    /\ MemIdle
    /\ PairIdle
    /\ PairIdle
    /\ zeroValue = ZeroValues
    /\ constructed = Constructed
    /\ arraySet = ArraySetZero
    /\ hashSet = HashSetZero
    /\ dynamicSet = DynamicSetZero
    /\ ref = {}
    /\ lastOp = [op |-> "zero", preHash |-> FALSE, preSize |-> 0]
    /\ phase = "new"

ZeroOp(name) ==
    [op |-> name,
     preHash |-> IsHashSet(zeroValue.dynamic),
     preSize |-> DynamicSetSize(zeroValue.dynamic)]

ZeroAdd(element) ==
    /\ zeroValue' = [array |-> ArraySetAdd(zeroValue.array, element),
                     hash |-> HashSetAdd(zeroValue.hash, element),
                     dynamic |-> DynamicSetAdd(zeroValue.dynamic, element)]
    /\ constructed' = [array |-> ArraySetAdd(constructed.array, element),
                       hash |-> HashSetAdd(constructed.hash, element),
                       dynamic |-> DynamicSetAdd(constructed.dynamic, element)]
    /\ lastOp' = ZeroOp("Add")
    /\ UNCHANGED <<arraySet, hashSet, dynamicSet, ref, phase, memVars,
                 pairVars>>

ZeroAddMultiple(elements) ==
    /\ zeroValue' =
        [array |-> ArraySetAddFromSlice(zeroValue.array, elements),
         hash |-> HashSetAddFromSlice(zeroValue.hash, elements),
         dynamic |-> DynamicSetAddMultiple(zeroValue.dynamic, elements)]
    /\ constructed' =
        [array |-> ArraySetAddFromSlice(constructed.array, elements),
         hash |-> HashSetAddFromSlice(constructed.hash, elements),
         dynamic |-> DynamicSetAddMultiple(constructed.dynamic, elements)]
    /\ lastOp' = ZeroOp("AddMultiple")
    /\ UNCHANGED <<arraySet, hashSet, dynamicSet, ref, phase, memVars,
                 pairVars>>

ZeroAddFromSlice(elements) ==
    /\ zeroValue' =
        [array |-> ArraySetAddFromSlice(zeroValue.array, elements),
         hash |-> HashSetAddFromSlice(zeroValue.hash, elements),
         dynamic |-> DynamicSetAddFromSlice(zeroValue.dynamic, elements)]
    /\ constructed' =
        [array |-> ArraySetAddFromSlice(constructed.array, elements),
         hash |-> HashSetAddFromSlice(constructed.hash, elements),
         dynamic |-> DynamicSetAddFromSlice(constructed.dynamic, elements)]
    /\ lastOp' = ZeroOp("AddFromSlice")
    /\ UNCHANGED <<arraySet, hashSet, dynamicSet, ref, phase, memVars,
                 pairVars>>

ZeroMergeWith(other) ==
    \E o1, o2 \in Iterate(other) :
        /\ zeroValue' =
            [array |-> ArraySetMergeWith(zeroValue.array, o1),
             hash |-> HashSetMergeWith(zeroValue.hash, o1),
             dynamic |-> DynamicSetMergeWith(zeroValue.dynamic, o1)]
        /\ constructed' =
            [array |-> ArraySetMergeWith(constructed.array, o2),
             hash |-> HashSetMergeWith(constructed.hash, o2),
             dynamic |-> DynamicSetMergeWith(constructed.dynamic, o2)]
        /\ lastOp' = ZeroOp("MergeWith")
        /\ UNCHANGED <<arraySet, hashSet, dynamicSet, ref, phase, memVars,
                 pairVars>>

ZeroRemove(element) ==
    /\ \E zd \in DynamicSetRemove(zeroValue.dynamic, element) :
        zeroValue' = [array |-> ArraySetRemove(zeroValue.array, element),
                      hash |-> HashSetRemove(zeroValue.hash, element),
                      dynamic |-> zd]
    /\ \E cd \in DynamicSetRemove(constructed.dynamic, element) :
        constructed' = [array |-> ArraySetRemove(constructed.array, element),
                        hash |-> HashSetRemove(constructed.hash, element),
                        dynamic |-> cd]
    /\ lastOp' = ZeroOp("Remove")
    /\ UNCHANGED <<arraySet, hashSet, dynamicSet, ref, phase, memVars,
                 pairVars>>

ZeroClear ==
    /\ zeroValue' = [array |-> ArraySetClear(zeroValue.array),
                     hash |-> HashSetClear(zeroValue.hash),
                     dynamic |-> DynamicSetClear(zeroValue.dynamic)]
    /\ constructed' = [array |-> ArraySetClear(constructed.array),
                       hash |-> HashSetClear(constructed.hash),
                       dynamic |-> DynamicSetClear(constructed.dynamic)]
    /\ lastOp' = ZeroOp("Clear")
    /\ UNCHANGED <<arraySet, hashSet, dynamicSet, ref, phase, memVars,
                 pairVars>>

ZeroNext ==
    \/ \E element \in Elems : ZeroAdd(element)
    \/ \E elements \in Slices : ZeroAddMultiple(elements)
    \/ \E elements \in Slices : ZeroAddFromSlice(elements)
    \/ \E other \in OtherSets : ZeroMergeWith(other)
    \/ \E element \in Elems : ZeroRemove(element)
    \/ ZeroClear

SpecZero == ZeroInit /\ [][ZeroNext]_vars

\* ------------------------------------------------- sets held in memory
\* One set of any of the three types is built in memory, then copied,
\* exported, queried and changed through the references the caller holds.
lockstepVars ==
    <<arraySet, hashSet, dynamicSet, ref, lastOp, phase, zeroValue, constructed>>

\* The sets driven in lockstep are not used.
LockstepIdle ==
    /\ zeroValue = ZeroValues
    /\ constructed = Constructed
    /\ arraySet = ArraySetZero
    /\ hashSet = HashSetZero
    /\ dynamicSet = DynamicSetZero
    /\ ref = {}
    /\ lastOp = [op |-> "zero", preHash |-> FALSE, preSize |-> 0]
    /\ phase = "new"

Holders == {"original", "duplicate"}

Held(holder) == IF holder = "original" THEN original ELSE duplicate

\* What the constructors of one type can build in mem: the zero value,
\* NewDynamicSet(), and ArraySetFromSlice, HashSetFromSlice and
\* DynamicSetFromSlice of a slice of at most MaxLen elements.
MemConstructed(mem, type) ==
    {[mem |-> mem, set |-> MemZeroValue(type)]}
    \cup (IF type = "DynamicSet"
          THEN {[mem |-> mem, set |-> MemNewDynamicSet]}
          ELSE {})
    \cup UNION {
        {IF type = "HashSet"
         THEN LET r == MemMakeMap(mem, Range(elements)) IN
              [mem |-> r.mem,
               set |-> [MemZeroValue(type) EXCEPT !.hash = r.map]]
         ELSE LET r == MemArraySetFromSlice(mem, elements)
                  s1 == [MemZeroValue(type)
                            EXCEPT !.array = r.slice,
                                   !.sizeThreshold =
                                        IF type = "DynamicSet"
                                        THEN DefaultDynamicSetSizeThreshold
                                        ELSE 0]
              IN IF type = "DynamicSet"
                    /\ s1.array.len >= s1.sizeThreshold
                 THEN MemTransformToHashSet(r.mem, s1)
                 ELSE [mem |-> r.mem, set |-> s1]
            : elements \in [1..n -> MemElems]}
        : n \in 0..MaxLen}

MemInit ==
    /\ LockstepIdle
    /\ PairIdle
    /\ duplicate = NoSet
    /\ returned = NoSlice
    /\ call = [op |-> "new", on |-> "original", answer |-> <<>>]
    /\ \E type \in SetTypes :
        \E r \in MemConstructed(EmptyMemory, type) :
            /\ memory = r.mem
            /\ original = r.set

\* The call on the held set left r; what no reference reaches is collected.
MemStore(holder, r) ==
    LET o == IF holder = "original" THEN r.set ELSE original
        d == IF holder = "duplicate" THEN r.set ELSE duplicate
    IN /\ original' = o
       /\ duplicate' = d
       /\ memory' = Collect(r.mem, {o, d}, returned.slice)

MemCallAdd(holder, element) ==
    /\ Held(holder).type # "none"
    /\ MemStore(holder, MemAdd(memory, Held(holder), element))
    /\ call' = [op |-> "Add", on |-> holder, answer |-> <<>>]
    /\ UNCHANGED <<returned, lockstepVars, pairVars>>

MemCallRemove(holder, element) ==
    /\ Held(holder).type # "none"
    /\ \E r \in MemRemove(memory, Held(holder), element) : MemStore(holder, r)
    /\ call' = [op |-> "Remove", on |-> holder, answer |-> <<>>]
    /\ UNCHANGED <<returned, lockstepVars, pairVars>>

MemCallClear(holder) ==
    /\ Held(holder).type # "none"
    /\ MemStore(holder, MemClear(memory, Held(holder)))
    /\ call' = [op |-> "Clear", on |-> holder, answer |-> <<>>]
    /\ UNCHANGED <<returned, lockstepVars, pairVars>>

MemCallSetSizeThreshold(holder, sizeThreshold) ==
    /\ Held(holder).type = "DynamicSet"
    /\ \E r \in MemSetSizeThreshold(memory, Held(holder), sizeThreshold) :
        MemStore(holder, r)
    /\ call' = [op |-> "SetSizeThreshold", on |-> holder, answer |-> <<>>]
    /\ UNCHANGED <<returned, lockstepVars, pairVars>>

\* duplicate = original.Copy()
MemCallCopy ==
    /\ LET r == MemCopy(memory, original) IN
        /\ duplicate' = r.set
        /\ memory' = Collect(r.mem, {original, r.set}, returned.slice)
    /\ call' = [op |-> "Copy", on |-> "original", answer |-> <<>>]
    /\ UNCHANGED <<original, returned, lockstepVars, pairVars>>

MemReturn(r, backing) ==
    /\ returned' = [present |-> TRUE, slice |-> r.slice,
                    elements |-> SliceElements(r.mem, r.slice),
                    backing |-> backing,
                    ofArraySet |-> MemIsArraySet(original)]
    /\ memory' = Collect(r.mem, {original, duplicate}, r.slice)

\* returned = original.ToSlice(), ToSlice making a copy (array_set.go:215).
MemCallToSlice ==
    /\ \E r \in MemToSlice(memory, original) : MemReturn(r, FALSE)
    /\ call' = [op |-> "ToSlice", on |-> "original", answer |-> <<>>]
    /\ UNCHANGED <<original, duplicate, lockstepVars, pairVars>>

\* returned = original.ToSlice(), ToSlice returning set.elements
\* (array_set.go:524).
MemCallToSliceBacking ==
    /\ \E r \in MemToSliceBacking(memory, original) : MemReturn(r, TRUE)
    /\ call' = [op |-> "ToSlice", on |-> "original", answer |-> <<>>]
    /\ UNCHANGED <<original, duplicate, lockstepVars, pairVars>>

\* The calls that only read: the caller gets the answer. Contains takes
\* the element, Equals, IsSubsetOf and IsSupersetOf the other set.
MemCallRead(name, holder, other, element) ==
    /\ Held(holder).type # "none"
    /\ Held(other).type # "none"
    /\ LET set == Held(holder)
           otherSet == Held(other)
           answer ==
            CASE name = "Contains" -> MemContains(memory, set, element)
              [] name = "Size" -> MemSize(memory, set)
              [] name = "IsEmpty" -> MemSize(memory, set) = 0
              [] name = "Equals" -> MemEquals(memory, set, otherSet)
              [] name = "IsSubsetOf" -> MemIsSubsetOf(memory, set, otherSet)
              [] name = "IsSupersetOf" ->
                    MemIsSubsetOf(memory, otherSet, set)
       IN call' = [op |-> name, on |-> holder, answer |-> <<answer>>]
    /\ UNCHANGED <<memory, original, duplicate, returned, lockstepVars,
                 pairVars>>

MemCallIterate(holder) ==
    /\ Held(holder).type # "none"
    /\ \E order \in MemIterate(memory, Held(holder)) :
        call' = [op |-> "Iterate", on |-> holder, answer |-> order]
    /\ UNCHANGED <<memory, original, duplicate, returned, lockstepVars,
                 pairVars>>

\* The calls that build a new set or map: the caller reads its size and
\* drops it.
MemDrop(name, holder, r, size) ==
    /\ memory' = Collect(r.mem, {original, duplicate}, returned.slice)
    /\ call' = [op |-> name, on |-> holder, answer |-> <<size>>]
    /\ UNCHANGED <<original, duplicate, returned, lockstepVars, pairVars>>

MemCallUnion(holder, other) ==
    /\ Held(holder).type # "none"
    /\ Held(other).type # "none"
    /\ \E order \in MemIterate(memory, Held(other)) :
        LET r == MemUnion(memory, Held(holder), order) IN
        MemDrop("Union", holder, r, MemSize(r.mem, r.set))

MemCallIntersection(holder, other) ==
    /\ Held(holder).type # "none"
    /\ Held(other).type # "none"
    /\ \E r \in MemIntersection(memory, Held(holder), Held(other)) :
        MemDrop("Intersection", holder, r, MemSize(r.mem, r.set))

MemCallToMap(holder) ==
    /\ Held(holder).type # "none"
    /\ LET r == MemMakeMap(memory, MemElements(memory, Held(holder))) IN
        MemDrop("ToMap", holder, r, Cardinality(MapKeys(r.mem, r.map)))

\* A set and its copy, each changed on its own.
CopyNext ==
    \/ \E holder \in Holders, element \in MemElems : MemCallAdd(holder, element)
    \/ \E holder \in Holders, element \in MemElems : MemCallRemove(holder, element)
    \/ \E holder \in Holders : MemCallClear(holder)
    \/ \E holder \in Holders, sizeThreshold \in MemElems :
        MemCallSetSizeThreshold(holder, sizeThreshold)
    \/ MemCallCopy

SpecCopy == MemInit /\ [][CopyNext]_vars

\* A set that is changed after its ToSlice returned.
SliceNext ==
    \/ \E element \in MemElems : MemCallAdd("original", element)
    \/ \E element \in MemElems : MemCallRemove("original", element)
    \/ MemCallClear("original")
    \/ \E sizeThreshold \in MemElems :
        MemCallSetSizeThreshold("original", sizeThreshold)
    \/ MemCallToSlice
    \/ MemCallToSliceBacking

SpecSlice == MemInit /\ [][SliceNext]_vars

\* Two sets, the second one built on its own or a copy of the first; the
\* first one is the receiver of every call, either one is the argument.
ReadInit ==
    /\ LockstepIdle
    /\ PairIdle
    /\ returned = NoSlice
    /\ call = [op |-> "new", on |-> "original", answer |-> <<>>]
    /\ \E type \in SetTypes, otherType \in SetTypes :
        \E r \in MemConstructed(EmptyMemory, type) :
            \E o \in MemConstructed(r.mem, otherType) :
                /\ memory = o.mem
                /\ original = r.set
                /\ duplicate = o.set

ReadNext ==
    \/ \E element \in MemElems : MemCallAdd("original", element)
    \/ \E element \in MemElems : MemCallRemove("original", element)
    \/ MemCallClear("original")
    \/ \E sizeThreshold \in MemElems :
        MemCallSetSizeThreshold("original", sizeThreshold)
    \/ MemCallCopy
    \/ \E element \in MemElems :
        MemCallRead("Contains", "original", "original", element)
    \/ \E name \in {"Size", "IsEmpty"} :
        MemCallRead(name, "original", "original", 1)
    \/ \E name \in {"Equals", "IsSubsetOf", "IsSupersetOf"} :
        \E other \in Holders : MemCallRead(name, "original", other, 1)
    \/ MemCallIterate("original")
    \/ \E other \in Holders : MemCallUnion("original", other)
    \/ \E other \in Holders : MemCallIntersection("original", other)
    \/ MemCallToMap("original")

SpecRead == ReadInit /\ [][ReadNext]_vars

\* ------------------------------------------------------ one tagged set
\* One set of any of the three types, changed through the Set interface
\* and combined with sets of every representation.
ToSlice(set) ==
    CASE set.type = "ArraySet" -> {ArraySetToSlice(set.set)}
      [] set.type = "HashSet" -> HashSetToSlice(set.set)
      [] set.type = "DynamicSet" ->
            IF IsArraySet(set.set)
            THEN {ArraySetToSlice(set.set.array)}
            ELSE HashSetToSlice(set.set.hash)

ToMap(set) ==
    CASE set.type = "ArraySet" -> ArraySetToMap(set.set)
      [] set.type = "HashSet" -> HashSetToMap(set.set)
      [] set.type = "DynamicSet" ->
            IF IsArraySet(set.set)
            THEN ArraySetToMap(set.set.array)
            ELSE HashSetToMap(set.set.hash)

PairInit ==
    /\ LockstepIdle
    /\ MemIdle
    /\ applied = "new"
    /\ \/ receiver \in {[type |-> "ArraySet", set |-> ArraySetZero],
                        [type |-> "HashSet", set |-> HashSetZero],
                        [type |-> "DynamicSet", set |-> DynamicSetZero],
                        [type |-> "DynamicSet", set |-> NewDynamicSet]}
       \/ \E s \in Slices :
            receiver \in {[type |-> "ArraySet", set |-> ArraySetFromSlice(s)],
                          [type |-> "HashSet", set |-> HashSetFromSlice(s)],
                          [type |-> "DynamicSet",
                           set |-> DynamicSetFromSlice(s)]}

PairAdd(element) ==
    /\ receiver' =
        [receiver EXCEPT !.set =
            CASE receiver.type = "ArraySet" -> ArraySetAdd(@, element)
              [] receiver.type = "HashSet" -> HashSetAdd(@, element)
              [] receiver.type = "DynamicSet" -> DynamicSetAdd(@, element)]
    /\ applied' = "Add"
    /\ UNCHANGED <<lockstepVars, memVars>>

PairRemove(element) ==
    /\ \E removed \in
            CASE receiver.type = "ArraySet" ->
                    {ArraySetRemove(receiver.set, element)}
              [] receiver.type = "HashSet" ->
                    {HashSetRemove(receiver.set, element)}
              [] receiver.type = "DynamicSet" ->
                    DynamicSetRemove(receiver.set, element) :
        receiver' = [receiver EXCEPT !.set = removed]
    /\ applied' = "Remove"
    /\ UNCHANGED <<lockstepVars, memVars>>

PairClear ==
    /\ receiver' =
        [receiver EXCEPT !.set =
            CASE receiver.type = "ArraySet" -> ArraySetClear(@)
              [] receiver.type = "HashSet" -> HashSetClear(@)
              [] receiver.type = "DynamicSet" -> DynamicSetClear(@)]
    /\ applied' = "Clear"
    /\ UNCHANGED <<lockstepVars, memVars>>

PairSetSizeThreshold(sizeThreshold) ==
    /\ receiver.type = "DynamicSet"
    /\ \E d \in DynamicSetSetSizeThreshold(receiver.set, sizeThreshold) :
        receiver' = [receiver EXCEPT !.set = d]
    /\ applied' = "SetSizeThreshold"
    /\ UNCHANGED <<lockstepVars, memVars>>

\* receiver = receiver.Union(otherSet)
PairUnion(otherSet) ==
    /\ receiver' \in ComparableSetUnion(receiver, otherSet)
    /\ applied' = "Union"
    /\ UNCHANGED <<lockstepVars, memVars>>

\* receiver = receiver.Intersection(otherSet)
PairIntersection(otherSet) ==
    /\ receiver' \in ComparableSetIntersection(receiver, otherSet)
    /\ applied' = "Intersection"
    /\ UNCHANGED <<lockstepVars, memVars>>

PairNext ==
    \/ \E element \in Elems : PairAdd(element)
    \/ \E element \in Elems : PairRemove(element)
    \/ PairClear
    \/ \E sizeThreshold \in Thresholds : PairSetSizeThreshold(sizeThreshold)
    \/ \E otherSet \in Operands : PairUnion(otherSet)
    \/ \E otherSet \in Operands : PairIntersection(otherSet)

SpecPair == PairInit /\ [][PairNext]_vars

\* ------------------------------------------------------- the older Clear
\* set.go:319-321, the DynamicSet.Clear that only drops the map:
\* set.hash.elements = nil, in either mode.
DynamicSetClearHashOnly(set) ==
    [set EXCEPT !.hash.isNil = TRUE, !.hash.elements = {}]

PairClearHashOnly ==
    /\ receiver.type = "DynamicSet"
    /\ receiver' = [receiver EXCEPT !.set = DynamicSetClearHashOnly(@)]
    /\ applied' = "Clear"
    /\ UNCHANGED <<lockstepVars, memVars>>

ClearNext ==
    \/ PairNext
    \/ PairClearHashOnly

\* The operations of SpecPair, with both versions of DynamicSet.Clear.
SpecClear == PairInit /\ [][ClearNext]_vars

\* --------------------------------------- the older DynamicSetWithCapacity
\* set.go:222-232: a capacity at or above the threshold gives a set that
\* starts with an allocated map instead of a slice.
DynamicSetWithCapacityByThreshold(capacity) ==
    IF capacity < DefaultDynamicSetSizeThreshold
    THEN [sizeThreshold |-> DefaultDynamicSetSizeThreshold,
          array |-> ArraySetWithCapacity,
          hash |-> NilMap]
    ELSE [sizeThreshold |-> DefaultDynamicSetSizeThreshold,
          array |-> ArraySetZero,
          hash |-> MakeMap]

\* The capacities asked for: none, and one below, at and above the threshold.
Capacities ==
    {0, DefaultDynamicSetSizeThreshold - 1, DefaultDynamicSetSizeThreshold,
     DefaultDynamicSetSizeThreshold + 1}

CapacityInit ==
    /\ LockstepIdle
    /\ MemIdle
    /\ applied = "new"
    /\ \E capacity \in Capacities :
        receiver = [type |-> "DynamicSet",
                    set |-> DynamicSetWithCapacityByThreshold(capacity)]

\* The operations of SpecPair on a set that DynamicSetWithCapacity built.
SpecCapacity == CapacityInit /\ [][PairNext]_vars

\* ------------------------------------------------------- Iterate and yield
\* What a yield function answers to its first, second, ... call.
Yields == [1..MaxElem -> BOOLEAN]

\* for _, element := range order { if !yield(element) { continue } }:
\* the loop that goes on after yield has returned false.
RECURSIVE RangeYieldContinue(_, _, _)
RangeYieldContinue(order, yield, i) ==
    IF i > Len(order)
    THEN [yielded |-> <<>>, returned |-> FALSE]
    ELSE LET rest == RangeYieldContinue(order, yield, i + 1)
         IN [yielded |-> <<order[i]>> \o rest.yielded,
             returned |-> rest.returned]

\* for _, element := range order { if !yield(element) { return false } }
\* return false
\* from the i-th element on: the elements passed to yield, and the result.
RECURSIVE RangeYield(_, _, _)
RangeYield(order, yield, i) ==
    IF i > Len(order)
    THEN [yielded |-> <<>>, returned |-> FALSE]
    ELSE IF ~yield[i]
    THEN [yielded |-> <<order[i]>>, returned |-> FALSE]
    ELSE LET rest == RangeYield(order, yield, i + 1)
         IN [yielded |-> <<order[i]>> \o rest.yielded,
             returned |-> rest.returned]

ArraySetIterate(set, loopBody) == RangeYield(set.elements, loopBody, 1)

HashSetIterate(set, yield) ==
    {RangeYield(order, yield, 1) : order \in MapOrders(set.elements)}

DynamicSetIterate(set, yield) ==
    IF IsArraySet(set)
    THEN {ArraySetIterate(set.array, yield)}
    ELSE HashSetIterate(set.hash, yield)

\* receiver.Iterate(yield)
PairIterate(yield) ==
    /\ call.op = "none"
    /\ \E result \in
            CASE receiver.type = "ArraySet" ->
                    {ArraySetIterate(receiver.set, yield)}
              [] receiver.type = "HashSet" ->
                    HashSetIterate(receiver.set, yield)
              [] receiver.type = "DynamicSet" ->
                    DynamicSetIterate(receiver.set, yield) :
        call' = [op |-> "Iterate", on |-> "receiver",
                 answer |-> result.yielded, yield |-> yield,
                 returned |-> result.returned]
    /\ UNCHANGED <<memory, original, duplicate, returned, lockstepVars,
                 pairVars>>

\* The caller drops what Iterate gave it.
IterateReturn ==
    /\ call.op = "Iterate"
    /\ call' = [op |-> "none", on |-> "none", answer |-> <<>>]
    /\ UNCHANGED <<memory, original, duplicate, returned, lockstepVars,
                 pairVars>>

\* The receiver is changed between two calls of Iterate, not during one.
IterateNext ==
    \/ \E element \in Elems : call.op = "none" /\ PairAdd(element)
    \/ \E element \in Elems : call.op = "none" /\ PairRemove(element)
    \/ call.op = "none" /\ PairClear
    \/ \E sizeThreshold \in Thresholds :
        call.op = "none" /\ PairSetSizeThreshold(sizeThreshold)
    \/ \E yield \in Yields : PairIterate(yield)
    \/ IterateReturn

SpecIterate == PairInit /\ [][IterateNext]_vars

\* ------------------------------------------------- the map-based Set
\* set.go:20, type Set[Element] map[Element]struct{}: its zero value is the
\* nil map, New() and WithCapacity(n) are make(Set[Element]).
\* Set.Add without the deferred recover: the runtime's panic gets through.
SetAddNoRecover(set, elements) ==
    LET m == AssignEach(set, elements)
    IN [set |-> [m EXCEPT !.panic = FALSE],
        panic |-> IF m.panic THEN "assignment to entry in nil map"
                  ELSE "none"]

\* The loop panics with "assignment to entry in nil map" at its first
\* assignment to a nil map; the deferred function recovers any panic and
\* panics again with its own message.
SetAdd(set, elements) ==
    LET m == AssignEach(set, elements)
        err == IF m.panic THEN "assignment to entry in nil map" ELSE "nil"
    IN [set |-> [m EXCEPT !.panic = FALSE],
        panic |-> IF err # "nil" THEN "called Add on nil Set" ELSE "none"]

SetOf(elements) == SetAdd(MakeMap, elements).set

SetFromSlice(slice) == SetOf(slice)

\* var nilSet Set[E], New(), WithCapacity(n), Of(elements...),
\* FromSlice(slice): receiver.from records which one built the set.
MapSetInit ==
    /\ LockstepIdle
    /\ MemIdle
    /\ applied = "new"
    /\ \/ receiver = [type |-> "Set", set |-> NilMap, from |-> "zero"]
       \/ receiver = [type |-> "Set", set |-> MakeMap, from |-> "New"]
       \/ receiver = [type |-> "Set", set |-> MakeMap,
                      from |-> "WithCapacity"]
       \/ \E elements \in Slices :
            receiver = [type |-> "Set", set |-> SetOf(elements),
                        from |-> "Of"]
       \/ \E slice \in Slices :
            receiver = [type |-> "Set", set |-> SetFromSlice(slice),
                        from |-> "FromSlice"]

\* receiver.Add(elements...): call keeps the arguments and the panic, if any.
MapSetAdd(elements) ==
    /\ LET added == SetAdd(receiver.set, elements)
       IN /\ receiver' = [receiver EXCEPT !.set = added.set]
          /\ call' = [op |-> "Add", on |-> "receiver", answer |-> elements,
                      panic |-> added.panic]
    /\ applied' = "Add"
    /\ UNCHANGED <<memory, original, duplicate, returned, lockstepVars>>

SpecMapSet == MapSetInit /\ [][\E elements \in Slices : MapSetAdd(elements)]_vars

\* ------------------------------------------------- DynamicSet from a slice
\* The slices handed to DynamicSetFromSlice and DynamicSetOf: length 0 to
\* MaxSliceLen, cycling through the first distinct values, so that slices
\* with 20 or more elements and fewer than 20 distinct ones occur.
LongSlices ==
    {[i \in 1..length |-> ((i - 1) % distinct) + 1]
        : length \in 0..MaxSliceLen, distinct \in 1..MaxDistinct}

DynamicSetOf(elements) == DynamicSetFromSlice(elements)

\* The caller holds the slice; the set is not built yet.
BuildInit ==
    /\ MemIdle
    /\ PairIdle
    /\ zeroValue = ZeroValues
    /\ constructed = Constructed
    /\ arraySet = ArraySetZero
    /\ hashSet = HashSetZero
    /\ dynamicSet = DynamicSetZero
    /\ ref = {}
    /\ phase = "new"
    /\ \E elements \in LongSlices :
        lastOp = [op |-> "none", preHash |-> FALSE, preSize |-> 0,
                  elements |-> elements]

\* dynamicSet = DynamicSetFromSlice(elements)
BuildFromSlice ==
    /\ lastOp.op = "none"
    /\ dynamicSet' = DynamicSetFromSlice(lastOp.elements)
    /\ ref' = Range(lastOp.elements)
    /\ lastOp' = [lastOp EXCEPT !.op = "DynamicSetFromSlice"]
    /\ phase' = "bulk"
    /\ UNCHANGED <<arraySet, hashSet, zeroValue, constructed, memVars,
                 pairVars>>

\* dynamicSet = DynamicSetOf(elements...)
BuildOf ==
    /\ lastOp.op = "none"
    /\ dynamicSet' = DynamicSetOf(lastOp.elements)
    /\ ref' = Range(lastOp.elements)
    /\ lastOp' = [lastOp EXCEPT !.op = "DynamicSetOf"]
    /\ phase' = "bulk"
    /\ UNCHANGED <<arraySet, hashSet, zeroValue, constructed, memVars,
                 pairVars>>

BuildNext ==
    \/ BuildFromSlice
    \/ BuildOf

SpecBuild == BuildInit /\ [][BuildNext]_vars

\* ----------------------------------------------------------------- claims
\* C1: after every step of any sequence of Add, AddMultiple/AddFromSlice,
\* MergeWith, Remove and Clear calls applied identically to the ArraySet, the
\* HashSet and the DynamicSet, all three agree with the reference set ref:
\* Contains(e) is true exactly for the elements of ref, Size() is its
\* cardinality and IsEmpty() is true exactly when it is empty.
AgreeWithReference ==
    /\ \A e \in Elems :
        /\ ArraySetContains(arraySet, e) <=> e \in ref
        /\ HashSetContains(hashSet, e) <=> e \in ref
        /\ DynamicSetContains(dynamicSet, e) <=> e \in ref
    /\ ArraySetSize(arraySet) = Cardinality(ref)
    /\ HashSetSize(hashSet) = Cardinality(ref)
    /\ DynamicSetSize(dynamicSet) = Cardinality(ref)
    /\ ArraySetIsEmpty(arraySet) <=> ref = {}
    /\ HashSetIsEmpty(hashSet) <=> ref = {}
    /\ DynamicSetIsEmpty(dynamicSet) <=> ref = {}

\* A Remove has just taken the DynamicSet from hash mode back to array mode,
\* with elements left in all three sets.
AgreeWithReferenceWitness ==
    /\ lastOp.op = "Remove"
    /\ lastOp.preHash
    /\ IsArraySet(dynamicSet)
    /\ dynamicSet.sizeThreshold >= 1
    /\ Cardinality(ref) >= 1
    /\ lastOp.preSize = Cardinality(ref) + 1

\* C2: a DynamicSet with threshold T >= 1 that starts empty and has only had
\* single elements added with Add is in array mode exactly while its size is
\* below T, so it is in hash mode right after the Add that brings it to T.
ArrayModeBelowThreshold ==
    (phase \in {"new", "add"} /\ dynamicSet.sizeThreshold >= 1) =>
        (IsArraySet(dynamicSet)
            <=> DynamicSetSize(dynamicSet) < dynamicSet.sizeThreshold)

\* The Add that brought the size to T >= 2 has just run, from array mode.
ArrayModeBelowThresholdWitness ==
    /\ phase = "add"
    /\ lastOp.op = "Add"
    /\ ~lastOp.preHash
    /\ dynamicSet.sizeThreshold >= 2
    /\ lastOp.preSize = dynamicSet.sizeThreshold - 1
    /\ DynamicSetSize(dynamicSet) = dynamicSet.sizeThreshold
    /\ IsHashSet(dynamicSet)

\* C3: a Remove on a hash-mode DynamicSet with threshold T leaves it in array
\* mode when the size it leaves is <= floor(T/2), and in hash mode when the
\* size it leaves is >= floor(T/2) + 1.
RemoveShrinksAtHalf ==
    (lastOp.op = "Remove" /\ lastOp.preHash) =>
        /\ DynamicSetSize(dynamicSet) <= dynamicSet.sizeThreshold \div 2
            => IsArraySet(dynamicSet)
        /\ DynamicSetSize(dynamicSet) >= (dynamicSet.sizeThreshold \div 2) + 1
            => IsHashSet(dynamicSet)

\* A Remove has just brought a hash-mode set down to exactly floor(T/2) >= 1.
RemoveShrinksAtHalfWitness ==
    /\ lastOp.op = "Remove"
    /\ lastOp.preHash
    /\ dynamicSet.sizeThreshold >= 2
    /\ DynamicSetSize(dynamicSet) = dynamicSet.sizeThreshold \div 2
    /\ lastOp.preSize = DynamicSetSize(dynamicSet) + 1
    /\ IsArraySet(dynamicSet)

\* C4: a DynamicSet is in exactly one of array mode and hash mode, and the
\* representation that is not active holds nothing: in hash mode the array
\* has no elements, in array mode the map is nil.
OneRepresentation ==
    /\ IsArraySet(dynamicSet) = ~IsHashSet(dynamicSet)
    /\ IsHashSet(dynamicSet) => dynamicSet.array.elements = <<>>
    /\ IsArraySet(dynamicSet) =>
        dynamicSet.hash.isNil /\ dynamicSet.hash.elements = {}

\* An addition has just transformed an array of two or more elements.
OneRepresentationWitness ==
    /\ lastOp.op \in {"Add", "AddFromSlice", "MergeWith"}
    /\ ~lastOp.preHash
    /\ lastOp.preSize >= 1
    /\ IsHashSet(dynamicSet)
    /\ DynamicSetSize(dynamicSet) >= 2

\* C5: no element is stored twice: the backing slices of the ArraySet and of
\* the DynamicSet's array are pairwise distinct in every state, and as long
\* as only additions were made, Size() of each of the three sets is the
\* number of distinct elements submitted.
NoElementTwice ==
    /\ NoDuplicates(arraySet.elements)
    /\ NoDuplicates(dynamicSet.array.elements)
    /\ phase \in {"new", "add", "bulk"} =>
        /\ ArraySetSize(arraySet) = Cardinality(ref)
        /\ HashSetSize(hashSet) = Cardinality(ref)
        /\ DynamicSetSize(dynamicSet) = Cardinality(ref)

\* An Add of an element that was already there has just run, in array mode.
NoElementTwiceWitness ==
    /\ phase = "add"
    /\ lastOp.op = "Add"
    /\ lastOp.preSize >= 1
    /\ lastOp.preSize = ArraySetSize(arraySet)
    /\ IsArraySet(dynamicSet)
    /\ DynamicSetSize(dynamicSet) = lastOp.preSize

\* C6: a DynamicSet from the zero value or from NewDynamicSet has the default
\* size threshold 20: it is in array mode while it holds fewer than 20
\* elements.
DefaultThresholdFromStart ==
    /\ DynamicSetSize(zeroValue.dynamic) < DefaultDynamicSetSizeThreshold
        => IsArraySet(zeroValue.dynamic)
    /\ DynamicSetSize(constructed.dynamic) < DefaultDynamicSetSizeThreshold
        => IsArraySet(constructed.dynamic)

\* C7: the zero value of each type is ready to use: no operation on it, or
\* on a state reached from it, assigns to an entry of a nil map, and after
\* any sequence of operations it reports the same Contains and Size results
\* as the value from NewArraySet / NewHashSet / NewDynamicSet.
ZeroValueReady ==
    /\ ~zeroValue.hash.panic
    /\ ~zeroValue.dynamic.hash.panic
    /\ \A e \in Elems :
        /\ ArraySetContains(zeroValue.array, e)
            <=> ArraySetContains(constructed.array, e)
        /\ HashSetContains(zeroValue.hash, e)
            <=> HashSetContains(constructed.hash, e)
        /\ DynamicSetContains(zeroValue.dynamic, e)
            <=> DynamicSetContains(constructed.dynamic, e)
    /\ ArraySetSize(zeroValue.array) = ArraySetSize(constructed.array)
    /\ HashSetSize(zeroValue.hash) = HashSetSize(constructed.hash)
    /\ DynamicSetSize(zeroValue.dynamic) = DynamicSetSize(constructed.dynamic)
    /\ \A other \in OtherSets : \A order \in Iterate(other) :
        /\ ~HashSetUnionHashSet(zeroValue.hash, order).panic
        /\ ~HashSetIntersectionHashSet(zeroValue.hash, other).panic
        /\ \A d \in DynamicSetUnionDynamicSet(zeroValue.dynamic, order)
                \cup DynamicSetIntersectionDynamicSet(zeroValue.dynamic, other)
                \cup DynamicSetCopyDynamicSet(zeroValue.dynamic) :
            ~d.hash.panic
    /\ ~HashSetCopyHashSet(zeroValue.hash).panic

\* The first addition to the zero values has just run: the nil map of the
\* HashSet got allocated and holds an element.
ZeroValueReadyWitness ==
    /\ lastOp.op \in {"Add", "AddFromSlice", "MergeWith"}
    /\ lastOp.preSize = 0
    /\ ~zeroValue.hash.isNil
    /\ HashSetSize(zeroValue.hash) >= 1
    /\ DynamicSetSize(zeroValue.dynamic) >= 1
    /\ ArraySetSize(zeroValue.array) >= 1

\* C8: right after SetSizeThreshold(t) on a DynamicSet of size n, the set is
\* in hash mode exactly when n >= t and in array mode exactly when n < t.
SetSizeThresholdDecidesMode ==
    lastOp.op = "SetSizeThreshold" =>
        /\ DynamicSetSize(dynamicSet) = lastOp.preSize
        /\ IsHashSet(dynamicSet)
            <=> DynamicSetSize(dynamicSet) >= dynamicSet.sizeThreshold
        /\ IsArraySet(dynamicSet)
            <=> DynamicSetSize(dynamicSet) < dynamicSet.sizeThreshold

\* SetSizeThreshold has just sent a hash-mode set whose size is above half
\* the new threshold back to array mode.
SetSizeThresholdDecidesModeWitness ==
    /\ lastOp.op = "SetSizeThreshold"
    /\ lastOp.preHash
    /\ IsArraySet(dynamicSet)
    /\ DynamicSetSize(dynamicSet) > dynamicSet.sizeThreshold \div 2
    /\ DynamicSetSize(dynamicSet) >= 1

\* C9: a change of representation keeps the elements and the size:
\* ArraySet.ToHashSet, HashSet.ToArraySet, both round trips, both DynamicSet
\* transformations, and every operation of the DynamicSet that changed its
\* mode (the set then holds exactly the reference elements).
RepresentationChangeKeepsElements ==
    /\ ArraySetToHashSet(arraySet).elements = Range(arraySet.elements)
    /\ HashSetSize(ArraySetToHashSet(arraySet)) = ArraySetSize(arraySet)
    /\ ~ArraySetToHashSet(arraySet).isNil
    /\ \A a \in HashSetToArraySet(hashSet) :
        /\ Range(a.elements) = hashSet.elements
        /\ ArraySetSize(a) = HashSetSize(hashSet)
        /\ ArraySetToHashSet(a).elements = hashSet.elements
    /\ \A a \in HashSetToArraySet(ArraySetToHashSet(arraySet)) :
        /\ Range(a.elements) = Range(arraySet.elements)
        /\ ArraySetSize(a) = ArraySetSize(arraySet)
    /\ IsArraySet(dynamicSet) =>
        LET t == transformToHashSet(dynamicSet) IN
        /\ IsHashSet(t)
        /\ DynamicSetSize(t) = DynamicSetSize(dynamicSet)
        /\ \A e \in Elems :
            DynamicSetContains(t, e) <=> DynamicSetContains(dynamicSet, e)
    /\ IsHashSet(dynamicSet) =>
        \A t \in transformToArraySet(dynamicSet) :
            /\ IsArraySet(t)
            /\ DynamicSetSize(t) = DynamicSetSize(dynamicSet)
            /\ \A e \in Elems :
                DynamicSetContains(t, e) <=> DynamicSetContains(dynamicSet, e)
    /\ lastOp.preHash # IsHashSet(dynamicSet) =>
        /\ DynamicSetSize(dynamicSet) = Cardinality(ref)
        /\ \A e \in Elems : DynamicSetContains(dynamicSet, e) <=> e \in ref

\* An operation has just changed the mode of a set of two or more elements.
RepresentationChangeKeepsElementsWitness ==
    /\ lastOp.op \in {"Add", "AddFromSlice", "MergeWith", "Remove",
                      "SetSizeThreshold"}
    /\ lastOp.preHash # IsHashSet(dynamicSet)
    /\ DynamicSetSize(dynamicSet) >= 2
    /\ ArraySetSize(arraySet) >= 2

\* C10: Add is idempotent on the three types: a second Add(e) leaves the
\* state the first one left (elements, size, ArraySet order, DynamicSet
\* mode), and Add of an element that is present changes nothing.
AddIdempotent ==
    \A e \in Elems :
        /\ ArraySetAdd(ArraySetAdd(arraySet, e), e) = ArraySetAdd(arraySet, e)
        /\ HashSetAdd(HashSetAdd(hashSet, e), e) = HashSetAdd(hashSet, e)
        /\ DynamicSetAdd(DynamicSetAdd(dynamicSet, e), e)
            = DynamicSetAdd(dynamicSet, e)
        /\ ArraySetContains(arraySet, e) => ArraySetAdd(arraySet, e) = arraySet
        /\ HashSetContains(hashSet, e) => HashSetAdd(hashSet, e) = hashSet
        /\ DynamicSetContains(dynamicSet, e)
            => DynamicSetAdd(dynamicSet, e) = dynamicSet

\* An Add of an element that was present has just run on a hash-mode set and
\* on an ArraySet of two or more elements.
AddIdempotentWitness ==
    /\ lastOp.op = "Add"
    /\ lastOp.preHash
    /\ IsHashSet(dynamicSet)
    /\ lastOp.preSize = DynamicSetSize(dynamicSet)
    /\ ArraySetSize(arraySet) >= 2

\* C11: Remove of an element that is not in the set is a no-op on the three
\* types in every reachable state: the elements, the size, the ArraySet
\* order and the DynamicSet's representation mode and threshold stay as
\* they were.
RemoveAbsentIsNoOp ==
    \A e \in Elems :
        /\ ~ArraySetContains(arraySet, e)
            => ArraySetRemove(arraySet, e).elements = arraySet.elements
        /\ ~HashSetContains(hashSet, e)
            => HashSetRemove(hashSet, e).elements = hashSet.elements
        /\ ~DynamicSetContains(dynamicSet, e)
            => \A d \in DynamicSetRemove(dynamicSet, e) :
                /\ d.sizeThreshold = dynamicSet.sizeThreshold
                /\ IsHashSet(d) = IsHashSet(dynamicSet)
                /\ DynamicSetSize(d) = DynamicSetSize(dynamicSet)
                /\ d.array.elements = dynamicSet.array.elements
                /\ d.hash.elements = dynamicSet.hash.elements

\* ------------------------------------------------ pairs of sets
\* The elements a set answers Contains with true for.
Elements(set) == {element \in Elems : Contains(set, element)}

PartlyOverlaps(a, b) ==
    /\ Elements(a) \cap Elements(b) # {}
    /\ Elements(a) \ Elements(b) # {}
    /\ Elements(b) \ Elements(a) # {}

IsHashMode(set) == set.type = "DynamicSet" /\ IsHashSet(set.set)

IsArrayMode(set) == set.type = "DynamicSet" /\ IsArraySet(set.set)

\* C12: for every pair a, b of sets of any two representations, a.Union(b)
\* contains an element exactly when a or b contains it, and its Size() is
\* the number of distinct elements of the two.
UnionIsSetUnion ==
    \A b \in Operands :
        /\ \A u \in ComparableSetUnion(receiver, b) :
            /\ Elements(u) = Elements(receiver) \cup Elements(b)
            /\ Size(u) = Cardinality(Elements(receiver) \cup Elements(b))
        /\ \A u \in ComparableSetUnion(b, receiver) :
            /\ Elements(u) = Elements(receiver) \cup Elements(b)
            /\ Size(u) = Cardinality(Elements(receiver) \cup Elements(b))

\* A Union has just left a hash-mode DynamicSet of two elements, and
\* there are an ArraySet and an array-mode DynamicSet that share some but
\* not all elements with it.
UnionIsSetUnionWitness ==
    /\ applied = "Union"
    /\ IsHashMode(receiver)
    /\ Size(receiver) = 2
    /\ \E b \in Operands :
        b.type = "ArraySet" /\ Size(b) = 2 /\ ~IsSubsetOf(b, receiver)
            /\ Elements(b) \cap Elements(receiver) # {}
    /\ \E b \in Operands :
        IsArrayMode(b) /\ Size(b) = 2 /\ ~IsSubsetOf(b, receiver)
            /\ Elements(b) \cap Elements(receiver) # {}

\* C13: for every pair a, b of sets of any two representations,
\* a.Intersection(b) contains an element exactly when both a and b contain
\* it, and its Size() is the number of such elements.
IntersectionIsSetIntersection ==
    \A b \in Operands :
        /\ \A i \in ComparableSetIntersection(receiver, b) :
            /\ Elements(i) = Elements(receiver) \cap Elements(b)
            /\ Size(i) = Cardinality(Elements(receiver) \cap Elements(b))
        /\ \A i \in ComparableSetIntersection(b, receiver) :
            /\ Elements(i) = Elements(receiver) \cap Elements(b)
            /\ Size(i) = Cardinality(Elements(receiver) \cap Elements(b))

\* An Intersection has just left a HashSet of two elements, and there is
\* an ArraySet that shares some but not all elements with it.
IntersectionIsSetIntersectionWitness ==
    /\ applied = "Intersection"
    /\ receiver.type = "HashSet"
    /\ Size(receiver) = 2
    /\ \E b \in Operands : b.type = "ArraySet" /\ PartlyOverlaps(receiver, b)

\* C14: a.Equals(b) is true exactly when a and b contain the same elements,
\* whatever their representations, and a.Equals(b) = b.Equals(a).
EqualsIsSameElements ==
    \A b \in Operands :
        /\ Equals(receiver, b) = (Elements(receiver) = Elements(b))
        /\ Equals(b, receiver) = (Elements(receiver) = Elements(b))
        /\ Equals(receiver, b) = Equals(b, receiver)

\* An ArraySet of two elements after a removal: a HashSet and a DynamicSet
\* equal it, one set is a proper subset of it and one of the same size
\* differs from it.
EqualsIsSameElementsWitness ==
    /\ applied = "Remove"
    /\ receiver.type = "ArraySet"
    /\ Size(receiver) = 2
    /\ \E b \in Operands : b.type = "HashSet" /\ Equals(receiver, b)
    /\ \E b \in Operands : IsHashMode(b) /\ Equals(b, receiver)
    /\ \E b \in Operands :
        Size(b) = 1 /\ IsSubsetOf(b, receiver) /\ ~Equals(b, receiver)
    /\ \E b \in Operands : Size(b) = 2 /\ ~Equals(receiver, b)

\* C15: Union is commutative on the elements: a.Union(b) and b.Union(a)
\* contain the same elements and have the same Size(), whatever the type
\* and mode of the two results.
UnionCommutes ==
    \A b \in Operands :
        \A u \in ComparableSetUnion(receiver, b) :
            \A v \in ComparableSetUnion(b, receiver) :
                /\ Elements(u) = Elements(v)
                /\ Size(u) = Size(v)

\* A hash-mode DynamicSet and an array-mode DynamicSet with elements of its
\* own: the two unions differ in mode.
UnionCommutesWitness ==
    /\ IsHashMode(receiver)
    /\ Size(receiver) >= 1
    /\ \E b \in Operands :
        /\ IsArrayMode(b)
        /\ Elements(b) \ Elements(receiver) # {}
        /\ \E u \in ComparableSetUnion(receiver, b) :
            \E v \in ComparableSetUnion(b, receiver) :
                IsHashMode(u) /\ IsArrayMode(v)

\* C16: a.IsSubsetOf(b) = b.IsSupersetOf(a) for sets of any
\* representations, and a.IsSubsetOf(b) is true exactly when every element
\* of a is in b (so an empty set is a subset of every set).
SubsetSupersetDual ==
    \A b \in Operands :
        /\ IsSubsetOf(receiver, b) = IsSupersetOf(b, receiver)
        /\ IsSubsetOf(b, receiver) = IsSupersetOf(receiver, b)
        /\ IsSubsetOf(receiver, b) = (Elements(receiver) \subseteq Elements(b))
        /\ IsSubsetOf(b, receiver) = (Elements(b) \subseteq Elements(receiver))

\* A hash-mode DynamicSet of two elements: one set is a proper subset of
\* it, one partly overlaps it, and the empty set is a subset of it.
SubsetSupersetDualWitness ==
    /\ IsHashMode(receiver)
    /\ Size(receiver) = 2
    /\ \E b \in Operands :
        /\ Size(b) = 1
        /\ IsSupersetOf(receiver, b)
        /\ ~IsSubsetOf(receiver, b)
    /\ \E b \in Operands :
        /\ PartlyOverlaps(receiver, b)
        /\ ~IsSubsetOf(receiver, b)
        /\ ~IsSupersetOf(receiver, b)
    /\ \E b \in Operands : Size(b) = 0 /\ IsSubsetOf(b, receiver)

\* ------------------------------------------------------------ exports
\* C19: for every reachable set of any type, ToSlice() returns a slice of
\* length Size() that holds every element of the set exactly once, and
\* ToMap() returns a map whose keys are exactly the elements of the set, so
\* that its len is Size().
ExportsHoldTheElements ==
    /\ \A slice \in ToSlice(receiver) :
        /\ Len(slice) = Size(receiver)
        /\ NoDuplicates(slice)
        /\ Range(slice) = Elements(receiver)
    /\ ~ToMap(receiver).isNil
    /\ ToMap(receiver).elements = Elements(receiver)
    /\ Cardinality(ToMap(receiver).elements) = Size(receiver)

\* A hash-mode DynamicSet holds two elements after a removal, and its
\* ToSlice has more than one possible order.
ExportsHoldTheElementsWitness ==
    /\ applied = "Remove"
    /\ IsHashMode(receiver)
    /\ Size(receiver) = 2
    /\ Cardinality(ToSlice(receiver)) > 1

\* ------------------------------------------------ copies and exports

\* What Equals and Size observe of the set a holder has.
Content(mem, set) ==
    [elements |-> MemElements(mem, set), size |-> MemSize(mem, set)]

\* C17: right after Copy the original and the copy are Equal and have the
\* same elements, and no Add, Remove, Clear or SetSizeThreshold on one of
\* them changes the elements or the size of the other.
CopyIsIndependent ==
    [][/\ call'.op = "Copy" =>
            /\ MemEquals(memory', original', duplicate')
            /\ MemEquals(memory', duplicate', original')
            /\ Content(memory', duplicate') = Content(memory, original)
       /\ (call'.op \in {"Add", "Remove", "Clear", "SetSizeThreshold"}
            /\ duplicate.type # "none") =>
            /\ call'.on = "original" =>
                Content(memory', duplicate') = Content(memory, duplicate)
            /\ call'.on = "duplicate" =>
                Content(memory', original') = Content(memory, original)]_vars

\* An ArraySet that was copied with spare capacity, then the original was
\* added to and the copy removed from: they differ.
CopyIsIndependentWitness ==
    /\ call.op = "Remove"
    /\ call.on = "duplicate"
    /\ original.type = "ArraySet"
    /\ MemSize(memory, original) = 2
    /\ MemSize(memory, duplicate) = 0
    /\ SliceCap(memory, duplicate.array) = 2

\* C18: the slice that ToSlice returned for an ArraySet, or for a DynamicSet
\* in array mode, still holds what it held when ToSlice returned, whatever
\* Add, Remove or Clear was called on the set since.
ToSliceIsSnapshot ==
    (returned.present /\ returned.ofArraySet) =>
        SliceElements(memory, returned.slice) = returned.elements

\* C20: a call of Contains, Size, IsEmpty, Equals, IsSubsetOf, IsSupersetOf,
\* Iterate, Union, Intersection, ToMap or Copy leaves the receiver and the
\* argument as they were: same elements, same ArraySet order, same
\* threshold, same representation mode.  Copy has no argument; what it
\* returns replaces the duplicate.
ReadsLeaveSetsUnchanged ==
    [][call'.op \in {"Contains", "Size", "IsEmpty", "Equals", "IsSubsetOf",
                    "IsSupersetOf", "Iterate", "Union", "Intersection",
                    "ToMap", "Copy"} =>
        /\ MemView(memory', original') = MemView(memory, original)
        /\ call'.op # "Copy" =>
            MemView(memory', duplicate') = MemView(memory, duplicate)]_vars

\* An ArraySet with spare capacity was intersected with a HashSet that
\* holds one of its two elements.
ReadsLeaveSetsUnchangedWitness ==
    /\ call = [op |-> "Intersection", on |-> "original", answer |-> <<1>>]
    /\ original.type = "ArraySet"
    /\ duplicate.type = "HashSet"
    /\ MemSize(memory, original) = 2
    /\ MemSize(memory, duplicate) = 1
    /\ MemElements(memory, duplicate) \subseteq MemElements(memory, original)

\* C21: Union, Intersection and Copy return a set of the receiver's concrete
\* type whatever the type of the argument, and the result of a DynamicSet
\* receiver carries the receiver's size threshold.
ResultHasReceiverType ==
    LET copies ==
            CASE receiver.type = "ArraySet" ->
                    {[type |-> "ArraySet",
                      set |-> ArraySetCopyArraySet(receiver.set)]}
              [] receiver.type = "HashSet" ->
                    {[type |-> "HashSet",
                      set |-> HashSetCopyHashSet(receiver.set)]}
              [] receiver.type = "DynamicSet" ->
                    {[type |-> "DynamicSet", set |-> c]
                        : c \in DynamicSetCopyDynamicSet(receiver.set)}
        results ==
            copies \cup UNION {ComparableSetUnion(receiver, otherSet)
                                \cup ComparableSetIntersection(receiver,
                                                               otherSet)
                                : otherSet \in Operands}
    IN \A result \in results :
        /\ result.type = receiver.type
        /\ receiver.type = "DynamicSet" =>
            result.set.sizeThreshold = receiver.set.sizeThreshold

\* A hash-mode DynamicSet with a threshold other than the default, itself the
\* result of a Union, is the receiver.
ResultHasReceiverTypeWitness ==
    /\ applied = "Union"
    /\ receiver.type = "DynamicSet"
    /\ IsHashSet(receiver.set)
    /\ receiver.set.sizeThreshold \in 1..MaxThreshold
    /\ DynamicSetSize(receiver.set) >= 2

\* C22: a Union on an array-mode DynamicSet with threshold T returns a set in
\* hash mode whenever the result has T or more elements, and an Intersection
\* on a hash-mode DynamicSet returns a set in array mode whenever the result
\* has floor(T/2) or fewer elements.
AlgebraRechecksThreshold ==
    receiver.type = "DynamicSet" =>
        \A otherSet \in Operands :
            /\ IsArraySet(receiver.set) =>
                \A union \in ComparableSetUnion(receiver, otherSet) :
                    DynamicSetSize(union.set) >= receiver.set.sizeThreshold
                        => IsHashSet(union.set)
            /\ IsHashSet(receiver.set) =>
                \A intersection
                        \in ComparableSetIntersection(receiver, otherSet) :
                    DynamicSetSize(intersection.set)
                            <= receiver.set.sizeThreshold \div 2
                        => IsArraySet(intersection.set)

\* A Union has returned a hash-mode set with T >= 2 or more elements, and an
\* Intersection on it leaves between 1 and floor(T/2) elements, in array
\* mode.
AlgebraRechecksThresholdWitness ==
    /\ applied = "Union"
    /\ receiver.type = "DynamicSet"
    /\ IsHashSet(receiver.set)
    /\ receiver.set.sizeThreshold \in 2..MaxThreshold
    /\ DynamicSetSize(receiver.set) >= receiver.set.sizeThreshold
    /\ \E otherSet \in Operands :
        \E intersection \in ComparableSetIntersection(receiver, otherSet) :
            /\ DynamicSetSize(intersection.set) >= 1
            /\ DynamicSetSize(intersection.set)
                    <= receiver.set.sizeThreshold \div 2
            /\ IsArraySet(intersection.set)

\* C23: DynamicSetFromSlice and DynamicSetOf return a set that contains
\* exactly the distinct elements of the input, in hash mode exactly when the
\* number of distinct elements is 20 or more and in array mode otherwise: the
\* length of the input with its duplicates does not decide the mode.
FromSliceModeByDistinct ==
    lastOp.op \in {"DynamicSetFromSlice", "DynamicSetOf"} =>
        LET distinct == Range(lastOp.elements)
        IN /\ \A element \in 1..(MaxDistinct + 1) :
                DynamicSetContains(dynamicSet, element)
                    <=> element \in distinct
           /\ DynamicSetSize(dynamicSet) = Cardinality(distinct)
           /\ IsHashSet(dynamicSet) <=>
                Cardinality(distinct) >= DefaultDynamicSetSizeThreshold
           /\ IsArraySet(dynamicSet) <=>
                Cardinality(distinct) < DefaultDynamicSetSizeThreshold

\* A slice of more than 20 elements, 19 of them distinct, has given a set in
\* array mode.
FromSliceModeByDistinctWitness ==
    /\ lastOp.op = "DynamicSetFromSlice"
    /\ Len(lastOp.elements) > DefaultDynamicSetSizeThreshold
    /\ Cardinality(Range(lastOp.elements))
            = DefaultDynamicSetSizeThreshold - 1
    /\ IsArraySet(dynamicSet)
    /\ DynamicSetSize(dynamicSet) = DefaultDynamicSetSizeThreshold - 1

\* C24: right after Clear() on a set of any type, in any reachable state,
\* Size() is 0, IsEmpty() is true and Contains(e) is false for every e, and
\* an Add(e) that follows gives a set of size 1 that contains e.
ClearEmpties ==
    applied = "Clear" =>
        /\ Size(receiver) = 0
        /\ \A element \in Elems : ~Contains(receiver, element)
        /\ CASE receiver.type = "ArraySet" -> ArraySetIsEmpty(receiver.set)
             [] receiver.type = "HashSet" -> HashSetIsEmpty(receiver.set)
             [] receiver.type = "DynamicSet" ->
                    DynamicSetIsEmpty(receiver.set)
        /\ \A element \in Elems :
            LET added ==
                    [receiver EXCEPT !.set =
                        CASE receiver.type = "ArraySet" ->
                                ArraySetAdd(@, element)
                          [] receiver.type = "HashSet" ->
                                HashSetAdd(@, element)
                          [] receiver.type = "DynamicSet" ->
                                DynamicSetAdd(@, element)]
            IN /\ Size(added) = 1
               /\ Contains(added, element)

\* C25: a Clear on a hash-mode DynamicSet leaves it in hash mode: IsHashSet
\* stays true, the move back to array mode happens only after a Remove.
ClearKeepsHashMode ==
    (lastOp.op = "Clear" /\ lastOp.preHash) => IsHashSet(dynamicSet)

\* C25, as the code has it: a Clear on a hash-mode DynamicSet leaves it empty
\* and in array mode, whatever its size and threshold were.
ClearLeavesArrayMode ==
    (lastOp.op = "Clear" /\ lastOp.preHash) =>
        /\ IsArraySet(dynamicSet)
        /\ ~IsHashSet(dynamicSet)
        /\ DynamicSetSize(dynamicSet) = 0

\* A Clear has just run on a hash-mode set that held more than floor(T/2)
\* elements, T >= 1: a Remove would have left it in hash mode.
ClearLeavesArrayModeWitness ==
    /\ lastOp.op = "Clear"
    /\ lastOp.preHash
    /\ dynamicSet.sizeThreshold >= 1
    /\ lastOp.preSize > (dynamicSet.sizeThreshold \div 2) + 1
    /\ IsArraySet(dynamicSet)

\* C26: for every threshold T >= 1, a single-element Add or Remove that
\* changes the representation of a DynamicSet is never immediately followed
\* by a single-element Add or Remove that changes it back.
NoFlapping ==
    [][(/\ lastOp.op \in {"Add", "Remove"}
        /\ lastOp.preHash # IsHashSet(dynamicSet)
        /\ dynamicSet.sizeThreshold >= 1
        /\ lastOp'.op \in {"Add", "Remove"})
            => IsHashSet(dynamicSet') = IsHashSet(dynamicSet)]_vars

\* C26, as the code has it: the same for every threshold T >= 3; with T = 1
\* and T = 2 the size T - 1 that a Remove leaves is at most floor(T/2).
NoFlappingFromThree ==
    [][(/\ lastOp.op \in {"Add", "Remove"}
        /\ lastOp.preHash # IsHashSet(dynamicSet)
        /\ dynamicSet.sizeThreshold >= 3
        /\ lastOp'.op \in {"Add", "Remove"})
            => IsHashSet(dynamicSet') = IsHashSet(dynamicSet)]_vars

\* An Add has just brought an array-mode set to its threshold T >= 3 and so
\* into hash mode; any element can be removed next.
NoFlappingFromThreeWitness ==
    /\ lastOp.op = "Add"
    /\ ~lastOp.preHash
    /\ IsHashSet(dynamicSet)
    /\ dynamicSet.sizeThreshold >= 3
    /\ lastOp.preSize = dynamicSet.sizeThreshold - 1
    /\ DynamicSetSize(dynamicSet) = dynamicSet.sizeThreshold

\* C27: the size threshold of a DynamicSet is an integer >= 1 in every
\* reachable state: after any constructor, the zero value included, and
\* after any SetSizeThreshold.
ThresholdAtLeastOne ==
    /\ dynamicSet.sizeThreshold \in Nat
    /\ dynamicSet.sizeThreshold >= 1

\* C28: Iterate passes every element of the set to yield exactly once, and
\* nothing else, as long as yield returns true; once yield has returned false
\* no further element is passed; and Iterate itself always returns false.
IterateYieldsEachOnce ==
    call.op = "Iterate" =>
        LET yielded == call.answer
            calls == 1..Len(yielded)
        IN /\ NoDuplicates(yielded)
           /\ Range(yielded) \subseteq Elements(receiver)
           /\ Len(yielded) <= Size(receiver)
           /\ (\A i \in calls : call.yield[i]) =>
                /\ Range(yielded) = Elements(receiver)
                /\ Len(yielded) = Size(receiver)
           /\ \A i \in calls : ~call.yield[i] => i = Len(yielded)
           /\ call.returned = FALSE

\* A hash-mode DynamicSet of three elements has been iterated with a yield
\* that returned false at its second call: two elements were passed.
IterateYieldsEachOnceWitness ==
    /\ call.op = "Iterate"
    /\ receiver.type = "DynamicSet"
    /\ IsHashSet(receiver.set)
    /\ Size(receiver) = 3
    /\ call.yield = <<TRUE, FALSE, TRUE>>
    /\ Len(call.answer) = 2

\* C29: in every reachable state of a DynamicSet with threshold T >= 1, after
\* any constructor and any operation, array mode implies size < T and hash
\* mode implies size > floor(T/2).
ModeWithinThresholds ==
    (receiver.type = "DynamicSet" /\ receiver.set.sizeThreshold >= 1) =>
        /\ IsArraySet(receiver.set) =>
            DynamicSetSize(receiver.set) < receiver.set.sizeThreshold
        /\ IsHashSet(receiver.set) =>
            DynamicSetSize(receiver.set)
                > receiver.set.sizeThreshold \div 2

\* C30: SetSizeThreshold with the value the threshold already has is a no-op
\* in every reachable state: it changes neither the elements nor the
\* representation mode of the DynamicSet.
SameThresholdIsNoOp ==
    receiver.type = "DynamicSet" =>
        \A set \in DynamicSetSetSizeThreshold(receiver.set,
                                              receiver.set.sizeThreshold) :
            /\ \A element \in Elems :
                DynamicSetContains(set, element)
                    <=> DynamicSetContains(receiver.set, element)
            /\ DynamicSetSize(set) = DynamicSetSize(receiver.set)
            /\ IsHashSet(set) = IsHashSet(receiver.set)

\* C30, as the code has it: SetSizeThreshold with the value T the threshold
\* already has keeps the elements and the threshold, and changes the mode
\* exactly for a hash-mode set of fewer than T elements, which it moves to
\* array mode, and for an array-mode set of T or more elements.
SameThresholdKeepsElements ==
    receiver.type = "DynamicSet" =>
        \A set \in DynamicSetSetSizeThreshold(receiver.set,
                                              receiver.set.sizeThreshold) :
            /\ \A element \in Elems :
                DynamicSetContains(set, element)
                    <=> DynamicSetContains(receiver.set, element)
            /\ DynamicSetSize(set) = DynamicSetSize(receiver.set)
            /\ set.sizeThreshold = receiver.set.sizeThreshold
            /\ IsHashSet(set) # IsHashSet(receiver.set) <=>
                \/ /\ IsHashSet(receiver.set)
                   /\ DynamicSetSize(receiver.set)
                        < receiver.set.sizeThreshold
                \/ /\ IsArraySet(receiver.set)
                   /\ DynamicSetSize(receiver.set)
                        >= receiver.set.sizeThreshold

\* A Remove has left a hash-mode set with between floor(T/2) + 1 and T - 1
\* elements; SetSizeThreshold(T) moves it to array mode.
SameThresholdKeepsElementsWitness ==
    /\ applied = "Remove"
    /\ receiver.type = "DynamicSet"
    /\ IsHashSet(receiver.set)
    /\ DynamicSetSize(receiver.set) > receiver.set.sizeThreshold \div 2
    /\ DynamicSetSize(receiver.set) < receiver.set.sizeThreshold
    /\ \E set \in DynamicSetSetSizeThreshold(receiver.set,
                                             receiver.set.sizeThreshold) :
        IsArraySet(set)

\* C31: an ArraySet keeps insertion order: Add appends a new element after
\* all existing ones, Remove(e) deletes e, keeps the relative order of the
\* remaining elements and leaves no gap (the length goes down by exactly 1),
\* and iteration and ToSlice follow this order.
ArraySetKeepsInsertionOrder ==
    receiver.type = "ArraySet" =>
        LET elements == receiver.set.elements
        IN /\ \A element \in Elems :
                LET added == ArraySetAdd(receiver.set, element).elements
                    removed == ArraySetRemove(receiver.set, element).elements
                    others == SelectSeq(elements,
                                        LAMBDA other : other # element)
                IN /\ ArraySetContains(receiver.set, element) =>
                        /\ added = elements
                        /\ removed = others
                        /\ Len(removed) = Len(elements) - 1
                   /\ ~ArraySetContains(receiver.set, element) =>
                        /\ added = Append(elements, element)
                        /\ removed = elements
           /\ Iterate(receiver) = {elements}
           /\ ArraySetIterate(receiver.set, [i \in 1..MaxElem |-> TRUE])
                    .yielded = elements
           /\ ArraySetToSlice(receiver.set) = elements

\* A Remove has left an ArraySet of two elements that are not in ascending
\* order: the order is that of the insertions, not that of the values.
ArraySetKeepsInsertionOrderWitness ==
    /\ applied = "Remove"
    /\ receiver.type = "ArraySet"
    /\ Len(receiver.set.elements) = 2
    /\ receiver.set.elements[1] > receiver.set.elements[2]

\* set.Add(element) for each element of elements, in order.
RECURSIVE AddOneByOne(_, _)
AddOneByOne(set, elements) ==
    IF elements = <<>> THEN set
    ELSE AddOneByOne(DynamicSetAdd(set, Head(elements)), Tail(elements))

\* Same elements, same size and same representation mode.
SameObservably(a, b) ==
    /\ \A element \in Elems :
        DynamicSetContains(a, element) <=> DynamicSetContains(b, element)
    /\ DynamicSetSize(a) = DynamicSetSize(b)
    /\ IsHashSet(a) = IsHashSet(b)
    /\ a.sizeThreshold = b.sizeThreshold

\* C32: for a DynamicSet with threshold >= 1 in any reachable state, a bulk
\* addition (AddMultiple, AddFromSlice or MergeWith) ends in the same
\* elements, the same size and the same representation mode as one Add per
\* element in order, although the bulk addition compares the size with the
\* threshold only once, at its end.
BulkAddAsAddEach ==
    (receiver.type = "DynamicSet" /\ receiver.set.sizeThreshold >= 1) =>
        /\ \A elements \in Slices :
            /\ SameObservably(DynamicSetAddMultiple(receiver.set, elements),
                              AddOneByOne(receiver.set, elements))
            /\ SameObservably(DynamicSetAddFromSlice(receiver.set, elements),
                              AddOneByOne(receiver.set, elements))
        /\ \A otherSet \in Operands :
            \A order \in Iterate(otherSet) :
                SameObservably(DynamicSetMergeWith(receiver.set, order),
                               AddOneByOne(receiver.set, order))

\* An array-mode set one element below its threshold T >= 2 takes a slice of
\* two new elements: one Add per element reaches T at the first of them, the
\* bulk addition looks at the size after both.
BulkAddAsAddEachWitness ==
    /\ applied = "Add"
    /\ receiver.type = "DynamicSet"
    /\ IsArraySet(receiver.set)
    /\ receiver.set.sizeThreshold \in 2..MaxThreshold
    /\ DynamicSetSize(receiver.set) = receiver.set.sizeThreshold - 1
    /\ \E elements \in Slices :
        /\ Len(elements) = 2
        /\ elements[1] # elements[2]
        /\ \A i \in 1..2 : ~DynamicSetContains(receiver.set, elements[i])
        /\ IsHashSet(DynamicSetAddFromSlice(receiver.set, elements))
        /\ IsHashSet(DynamicSetAdd(receiver.set, elements[1]))
        /\ DynamicSetSize(DynamicSetAddFromSlice(receiver.set, elements))
                = receiver.set.sizeThreshold + 1

AddOnNilSetPanics ==
    call.op = "Add" =>
        /\ (receiver.from = "zero" /\ call.answer # <<>>) =>
            call.panic = "called Add on nil Set"
        /\ receiver.from \in {"New", "WithCapacity", "Of", "FromSlice"} =>
            /\ call.panic = "none"
            /\ Range(call.answer) \subseteq receiver.set.elements

\* Add of two elements on the zero value has panicked.
AddOnNilSetPanicsWitness ==
    /\ call.op = "Add"
    /\ receiver.from = "zero"
    /\ receiver.set.isNil
    /\ Len(call.answer) = 2
    /\ call.panic = "called Add on nil Set"

====
